---------------------------- MODULE Spec2Model ----------------------------
(***************************************************************************)
(* Model of the categorization engine of financial-pro's backend           *)
(* (src/backend/main.py, src/backend/database_service.py).                 *)
(*                                                                         *)
(* Python strings are sequences of one-character strings, so that          *)
(* lower(), strip(), substring tests and the regular expressions of the    *)
(* source are computed rather than assumed.  The only whitespace           *)
(* character of the model's alphabet is the blank.                         *)
(* Python's None is the record None; an optional argument that is given    *)
(* is Some(v).                                                             *)
(***************************************************************************)
EXTENDS Integers, Sequences, FiniteSets, TLC

None == [none |-> TRUE]
Some(v) == [val |-> v]

(***************************************************************************)
(* Characters                                                              *)
(***************************************************************************)
LowerAlpha == <<"a","b","c","d","e","f","g","h","i","j","k","l","m","n","o","p","q","r","s","t","u","v","w","x","y","z">>
UpperAlpha == <<"A","B","C","D","E","F","G","H","I","J","K","L","M","N","O","P","Q","R","S","T","U","V","W","X","Y","Z">>
DigitChars == <<"0","1","2","3","4","5","6","7","8","9">>
OtherChars == <<" ","#","*","/","-","_",".","|","&">>
Alphabet == LowerAlpha \o UpperAlpha \o DigitChars \o OtherChars

IndexIn(c, tbl) == CHOOSE i \in 1..Len(tbl) : tbl[i] = c
InTable(c, tbl) == \E i \in 1..Len(tbl) : tbl[i] = c

IsDigit(c) == InTable(c, DigitChars)
IsUpper(c) == InTable(c, UpperAlpha)
IsLower(c) == InTable(c, LowerAlpha)
IsAlpha(c) == IsUpper(c) \/ IsLower(c)
IsAlnum(c) == IsAlpha(c) \/ IsDigit(c)
IsSpace(c) == c = " "
\* \w of Python's re module
IsWord(c) == IsAlnum(c) \/ c = "_"
\* [A-Z0-9]
IsUpperOrDigit(c) == IsUpper(c) \/ IsDigit(c)

ToLower(c) == IF IsUpper(c) THEN LowerAlpha[IndexIn(c, UpperAlpha)] ELSE c
ToUpper(c) == IF IsLower(c) THEN UpperAlpha[IndexIn(c, LowerAlpha)] ELSE c
\* ord(c), up to a renumbering of the alphabet
Ord(c) == IndexIn(c, Alphabet)

(***************************************************************************)
(* str methods                                                             *)
(***************************************************************************)
str_lower(s) == [i \in 1..Len(s) |-> ToLower(s[i])]
str_upper(s) == [i \in 1..Len(s) |-> ToUpper(s[i])]

RECURSIVE str_lstrip(_)
str_lstrip(s) == IF s # <<>> /\ IsSpace(Head(s)) THEN str_lstrip(Tail(s)) ELSE s

RECURSIVE str_rstrip(_)
str_rstrip(s) ==
    IF s # <<>> /\ IsSpace(s[Len(s)]) THEN str_rstrip(SubSeq(s, 1, Len(s) - 1)) ELSE s

str_strip(s) == str_lstrip(str_rstrip(s))

\* sub in s
str_contains(sub, s) ==
    \E i \in 0..(Len(s) - Len(sub)) : SubSeq(s, i + 1, i + Len(sub)) = sub

\* s[i:i+len(lit)] == lit, i counted from 1
LiteralAt(s, i, lit) ==
    /\ i >= 1
    /\ i + Len(lit) - 1 <= Len(s)
    /\ SubSeq(s, i, i + Len(lit) - 1) = lit

\* str.title() : a letter is upper-cased after a non-letter, lower-cased after a letter
str_title(s) ==
    [i \in 1..Len(s) |->
        IF ~IsAlpha(s[i]) THEN s[i]
        ELSE IF i > 1 /\ IsAlpha(s[i - 1]) THEN ToLower(s[i]) ELSE ToUpper(s[i])]

\* str.split() : the maximal blank-free runs
RECURSIVE str_split(_)
str_split(s) ==
    LET t == str_lstrip(s)
        n == IF \E k \in 1..Len(t) : IsSpace(t[k])
             THEN (CHOOSE k \in 1..Len(t) :
                       IsSpace(t[k]) /\ \A j \in 1..(k - 1) : ~IsSpace(t[j])) - 1
             ELSE Len(t)
    IN IF t = <<>> THEN <<>>
       ELSE <<SubSeq(t, 1, n)>> \o str_split(SubSeq(t, n + 1, Len(t)))

(***************************************************************************)
(* Regular expressions of the source, by what they match.                  *)
(* A pattern is given as the function i |-> length of its match starting   *)
(* at position i of s (0: no match there); re.sub replaces the leftmost    *)
(* non-overlapping matches.  None of the patterns matches the empty string.*)
(***************************************************************************)
CharAt(s, i) == IF i >= 1 /\ i <= Len(s) THEN s[i] ELSE ""

\* length of the maximal run of digits / blanks / [A-Z0-9] / non-digits from i
RECURSIVE DigitRun(_, _)
DigitRun(s, i) == IF i <= Len(s) /\ IsDigit(s[i]) THEN 1 + DigitRun(s, i + 1) ELSE 0
RECURSIVE SpaceRun(_, _)
SpaceRun(s, i) == IF i <= Len(s) /\ IsSpace(s[i]) THEN 1 + SpaceRun(s, i + 1) ELSE 0
RECURSIVE UpperDigitRun(_, _)
UpperDigitRun(s, i) ==
    IF i <= Len(s) /\ IsUpperOrDigit(s[i]) THEN 1 + UpperDigitRun(s, i + 1) ELSE 0
RECURSIVE NonDigitRun(_, _)
NonDigitRun(s, i) ==
    IF i <= Len(s) /\ ~IsDigit(s[i]) THEN 1 + NonDigitRun(s, i + 1) ELSE 0

\* \b before s[i] and after s[j-1], when that character is a word character
BoundaryBefore(s, i) == i = 1 \/ ~IsWord(s[i - 1])
BoundaryAfter(s, j) == j > Len(s) \/ ~IsWord(s[j])

RECURSIVE re_sub_from(_, _, _, _)
re_sub_from(s, mlen, repl, i) ==
    IF i > Len(s) THEN <<>>
    ELSE IF mlen[i] > 0 THEN repl \o re_sub_from(s, mlen, repl, i + mlen[i])
    ELSE <<s[i]>> \o re_sub_from(s, mlen, repl, i + 1)

re_sub(s, mlen, repl) == re_sub_from(s, mlen, repl, 1)

\* r'\b\d{1,2}/\d{1,2}\b'
MatchShortDate(s) ==
    [i \in 1..Len(s) |->
        LET d == DigitRun(s, i)
            e == DigitRun(s, i + d + 1)
        IN IF /\ d \in {1, 2}
              /\ BoundaryBefore(s, i)
              /\ CharAt(s, i + d) = "/"
              /\ e \in {1, 2}
              /\ BoundaryAfter(s, i + d + 1 + e)
           THEN d + 1 + e ELSE 0]

\* r'\b\d{2}/\d{2}/\d{2,4}\b'
MatchFullDate(s) ==
    [i \in 1..Len(s) |->
        LET e == DigitRun(s, i + 6)
        IN IF /\ DigitRun(s, i) = 2
              /\ BoundaryBefore(s, i)
              /\ CharAt(s, i + 2) = "/"
              /\ DigitRun(s, i + 3) = 2
              /\ CharAt(s, i + 5) = "/"
              /\ e \in {2, 3, 4}
              /\ BoundaryAfter(s, i + 6 + e)
           THEN 6 + e ELSE 0]

\* r'\b\d{6,}\b'
MatchLongNumber(s) ==
    [i \in 1..Len(s) |->
        LET d == DigitRun(s, i)
        IN IF d >= 6 /\ BoundaryBefore(s, i) /\ BoundaryAfter(s, i + d)
           THEN d ELSE 0]

StateCodes ==
    { <<"F","L">>, <<"C","A">>, <<"N","Y">>, <<"T","X">>, <<"G","A">>, <<"N","C">>,
      <<"S","C">>, <<"V","A">>, <<"M","D">>, <<"P","A">>, <<"N","J">>, <<"C","T">>,
      <<"M","A">>, <<"O","H">>, <<"M","I">>, <<"I","L">>, <<"I","N">>, <<"W","I">>,
      <<"M","N">>, <<"I","A">>, <<"M","O">>, <<"A","R">>, <<"L","A">>, <<"M","S">>,
      <<"A","L">>, <<"T","N">>, <<"K","Y">>, <<"W","V">>, <<"D","E">>, <<"D","C">>,
      <<"W","A">> }

\* re.sub(r'\s+(FL|CA|...|WA)\s*$', '', s) : the pattern is anchored at the end,
\* and its leftmost match starts with the whole run of blanks before the code
StripStateSuffix(s) ==
    LET t == str_rstrip(s)
        n == Len(t)
    IN IF n >= 3 /\ SubSeq(t, n - 1, n) \in StateCodes /\ IsSpace(t[n - 2])
       THEN str_rstrip(SubSeq(t, 1, n - 2))
       ELSE s

\* r'\s*#\d+\s*'
MatchStoreNumber(s) ==
    [i \in 1..Len(s) |->
        LET w == SpaceRun(s, i)
            d == DigitRun(s, i + w + 1)
        IN IF CharAt(s, i + w) = "#" /\ d >= 1
           THEN w + 1 + d + SpaceRun(s, i + w + 1 + d) ELSE 0]

\* r'\s+\d{3,6}\s*' : of a longer run of digits the first six are taken
MatchLocationCode(s) ==
    [i \in 1..Len(s) |->
        LET w == SpaceRun(s, i)
            d == DigitRun(s, i + w)
        IN IF w >= 1 /\ d >= 3
           THEN (IF d > 6 THEN w + 6 ELSE w + d + SpaceRun(s, i + w + d))
           ELSE 0]

\* r'\*[A-Z0-9]{6,}'
MatchTransactionId(s) ==
    [i \in 1..Len(s) |->
        LET n == UpperDigitRun(s, i + 1)
        IN IF s[i] = "*" /\ n >= 6 THEN 1 + n ELSE 0]

Str_MKTPL == <<"M","K","T","P","L">>

\* r'MKTPL\*[A-Z0-9]+'
MatchMktpl(s) ==
    [i \in 1..Len(s) |->
        LET n == UpperDigitRun(s, i + 6)
        IN IF LiteralAt(s, i, Str_MKTPL \o <<"*">>) /\ n >= 1 THEN 6 + n ELSE 0]

\* re.sub(r'\s+<lit>.*$', '', s) : cut at the first run of blanks followed by lit
CutAtSuffix(s, lit) ==
    LET Hit(i) == SpaceRun(s, i) >= 1 /\ LiteralAt(s, i + SpaceRun(s, i), lit)
    IN IF \E i \in 1..Len(s) : Hit(i)
       THEN SubSeq(s, 1, (CHOOSE i \in 1..Len(s) :
                              Hit(i) /\ \A j \in 1..(i - 1) : ~Hit(j)) - 1)
       ELSE s

\* r'\s+'
MatchSpaces(s) == [i \in 1..Len(s) |-> SpaceRun(s, i)]

Str_AMZN_BILL == <<"A","M","Z","N",".","C","O","M","/","B","I","L","L">>
Str_MIAMI == <<"M","I","A","M","I">>
Str_CVS == <<"C","V","S">>
Str_PHARMACY == <<"P","H","A","R","M","A","C","Y">>
Str_CVS_PHARMACY == <<"C","V","S","/","P","H","A","R","M","A","C","Y">>
Str_AMAZON == <<"A","M","A","Z","O","N">>

\* steps 1-8 of extract_merchant_name, one operator per statement
to_upper_stripped(description) == str_upper(str_strip(description))

remove_short_dates(s) == re_sub(s, MatchShortDate(s), <<>>)

remove_full_dates(s) == re_sub(s, MatchFullDate(s), <<>>)

remove_long_numbers(s) == re_sub(s, MatchLongNumber(s), <<>>)

remove_store_numbers(s) == re_sub(s, MatchStoreNumber(s), <<" ">>)

remove_location_codes(s) == re_sub(s, MatchLocationCode(s), <<" ">>)

remove_transaction_ids(s) == re_sub(s, MatchTransactionId(s), <<>>)

normalize_mktpl(s) == re_sub(s, MatchMktpl(s), Str_MKTPL)

remove_amzn_bill(s) == CutAtSuffix(s, Str_AMZN_BILL)

remove_miami(s) == CutAtSuffix(s, Str_MIAMI)

collapse_spaces(s) == str_strip(re_sub(s, MatchSpaces(s), <<" ">>))

\* the cleaned description
clean_description(description) ==
    collapse_spaces(remove_miami(remove_amzn_bill(normalize_mktpl(
        remove_transaction_ids(remove_location_codes(remove_store_numbers(
            StripStateSuffix(remove_long_numbers(remove_full_dates(
                remove_short_dates(to_upper_stripped(description))))))))))))

\* steps 9-10: known chains, else the first two words
merchant_from_words(desc, words) ==
    IF str_contains(Str_CVS, desc) /\ str_contains(Str_PHARMACY, desc)
    THEN Str_CVS_PHARMACY
    ELSE IF str_contains(Str_AMAZON, desc) THEN Str_AMAZON
    ELSE IF Len(words) >= 2 THEN words[1] \o <<" ">> \o words[2]
    ELSE IF Len(words) = 1 THEN words[1]
    ELSE desc

merchant_from_clean(desc) == str_strip(merchant_from_words(desc, str_split(desc)))

extract_merchant_name(description) == merchant_from_clean(clean_description(description))

(***************************************************************************)
(* Zelle payments                                                          *)
(***************************************************************************)
Str_zelle_payment_to == <<"z","e","l","l","e"," ","p","a","y","m","e","n","t"," ","t","o">>

is_zelle_payment(description) ==
    str_contains(Str_zelle_payment_to, str_lower(description))

\* re.search(r'zelle payment to\s+([^0-9]+)', low) matches at i: the phrase, a
\* blank, and a non-digit after it (which \s+ gives back when it is a blank)
ZelleMatchAt(low, i) ==
    LET j == i + Len(Str_zelle_payment_to)
    IN /\ LiteralAt(low, i, Str_zelle_payment_to)
       /\ j + 1 <= Len(low)
       /\ IsSpace(low[j])
       /\ ~IsDigit(low[j + 1])

\* the recipient as it stands in the lower-cased description, neither trimmed nor
\* title-cased
extract_zelle_recipient_raw(description) ==
    LET low == str_lower(description)
    IN IF \E i \in 1..Len(low) : ZelleMatchAt(low, i)
       THEN LET i == CHOOSE k \in 1..Len(low) :
                        ZelleMatchAt(low, k) /\ \A m \in 1..(k - 1) : ~ZelleMatchAt(low, m)
                j == i + Len(Str_zelle_payment_to)
            IN Some(SubSeq(low, j + 1, j + NonDigitRun(low, j + 1)))
       ELSE None

\* None, or the recipient (possibly the empty string)
extract_zelle_recipient(description) ==
    LET low == str_lower(description)
    IN IF ~str_contains(Str_zelle_payment_to, low) THEN None
       ELSE IF \E i \in 1..Len(low) : ZelleMatchAt(low, i)
       THEN LET i == CHOOSE k \in 1..Len(low) :
                        ZelleMatchAt(low, k) /\ \A m \in 1..(k - 1) : ~ZelleMatchAt(low, m)
                j == i + Len(Str_zelle_payment_to)
                n == NonDigitRun(low, j + 1)
            IN Some(str_title(str_strip(SubSeq(low, j + 1, j + n))))
       ELSE None

(***************************************************************************)
(* Transaction identity                                                    *)
(***************************************************************************)
RECURSIVE NatStr(_)
NatStr(n) == IF n < 10 THEN <<DigitChars[n + 1]>>
             ELSE NatStr(n \div 10) \o <<DigitChars[(n % 10) + 1]>>

\* str(amount) of a float with an integral value: the amounts of the model
float_str(amount) ==
    (IF amount < 0 THEN <<"-">> ELSE <<>>)
        \o NatStr(IF amount < 0 THEN -amount ELSE amount) \o <<".","0">>

\* "|".join(parts)
RECURSIVE str_join(_)
str_join(parts) ==
    IF Len(parts) = 0 THEN <<>>
    ELSE IF Len(parts) = 1 THEN parts[1]
    ELSE parts[1] \o <<"|">> \o str_join(Tail(parts))

RECURSIVE keep_url_safe(_)
keep_url_safe(s) ==
    IF s = <<>> THEN <<>>
    ELSE (IF IsAlnum(Head(s)) \/ Head(s) \in {"-", "_"} THEN <<Head(s)>> ELSE <<>>)
             \o keep_url_safe(Tail(s))

Str_transaction == <<"t","r","a","n","s","a","c","t","i","o","n">>

\* `if date:` : a date that is None or the empty string is left out
transaction_string(description, amount, date) ==
    str_join(<<str_strip(description), float_str(amount)>>
                 \o (IF date # None /\ date.val # <<>> THEN <<date.val>> ELSE <<>>))

\* hashlib.md5(...).hexdigest()[:8], as a collision-free digest of its argument
md5_hex8(s) == [md5 |-> s]

\* the key "<clean_desc>_<hash>" as the pair of its two parts
get_transaction_key(description, amount, date) ==
    LET clean_desc ==
            str_strip(keep_url_safe(SubSeq(description, 1,
                                           IF Len(description) < 20
                                           THEN Len(description) ELSE 20)))
    IN [prefix |-> IF clean_desc = <<>> THEN Str_transaction ELSE clean_desc,
        hash |-> md5_hex8(transaction_string(description, amount, date))]

(***************************************************************************)
(* The universe of the model: users, descriptions, amounts, dates and the  *)
(* strings a request may carry.                                            *)
(***************************************************************************)
Users == {"u1", "u2"}
\* the users whose requests the specification Spec follows
ActiveUsers == {"u1"}

Str_grocery == <<"g","r","o","c","e","r","y">>
Str_publix == <<"p","u","b","l","i","x">>
Str_pharmacy == <<"p","h","a","r","m","a","c","y">>
Str_cvs == <<"c","v","s">>
Str_ZELLE == <<"Z","E","L","L","E">>
Str_Doris == <<"D","o","r","i","s">>

\* "Publix Pharmacy #03": keywords of both default categories occur in it
Desc_Publix == <<"P","u","b","l","i","x"," ","P","h","a","r","m","a","c","y"," ","#","0","3">>
\* "Zelle payment to Doris 25858144732"
Desc_Zelle == <<"Z","e","l","l","e"," ","p","a","y","m","e","n","t"," ","t","o"," ","D","o","r","i","s"," ","2","5","8","5","8","1","4","4","7","3","2">>
\* " Gym 24 ": no default keyword occurs in it
Desc_Gym == <<" ","G","y","m"," ","2","4"," ">>
Descriptions == {Desc_Publix, Desc_Zelle, Desc_Gym}
\* descriptions of income rows
Desc_Payroll == <<"A","C","M","E"," ","P","a","y","r","o","l","l"," ","D","e","p","o","s","i","t">>
Desc_Return == <<"R","e","t","u","r","n"," ","C","V","S">>
IncomeDescriptions == {Desc_Payroll, Desc_Return}

\* "2024-03-01" and "03/01/2024"
Date_iso == <<"2","0","2","4","-","0","3","-","0","1">>
Date_us == <<"0","3","/","0","1","/","2","0","2","4">>

\* an expense of -42.0 and an income of 100.0
ExpenseAmount == 0 - 42
IncomeAmount == 100
Amounts == {ExpenseAmount, IncomeAmount}
\* the dates a key is computed with: none, or the text of a date
KeyDates == {None, Some(Date_iso), Some(Date_us)}

Name_Groceries == "Shopping & Food - Groceries"
Name_Pharmacy == "Healthcare - Pharmacy"
\* the names a request may carry: the empty name, a new name, a default's name
CategoryNames == {"", "Fun", Name_Groceries}
KeywordChoices == {<<>>, <<Str_ZELLE>>}
\* the categories a POST /categories may ask for
NewCategories ==
    { [name |-> "", keywords |-> <<>>],
      [name |-> "Fun", keywords |-> <<Str_ZELLE>>],
      [name |-> Name_Groceries, keywords |-> <<>>] }
\* the (name, keywords) updates a PUT /categories/{id} may carry
CategoryUpdates ==
    { <<Some("Fun"), None>>, <<Some(Name_Groceries), None>>, <<None, Some(<<Str_ZELLE>>)>>,
      <<None, None>> }

\* two of the default categories, in their order, each with two of its keywords
DefaultCategories ==
    << [name |-> Name_Groceries, keywords |-> <<Str_grocery, Str_publix>>],
       [name |-> Name_Pharmacy, keywords |-> <<Str_pharmacy, Str_cvs>>] >>

\* bounds of the model
MaxOps == 2
MaxSeed == 1
MaxRows == 2
HashSpace == 65536

\* every keyword a category of the model can carry
Keywords ==
    UNION { {k[i] : i \in 1..Len(k)} : k \in KeywordChoices }
        \cup UNION { {DefaultCategories[i].keywords[j] :
                          j \in 1..Len(DefaultCategories[i].keywords)} :
                     i \in 1..Len(DefaultCategories) }

(***************************************************************************)
(* The pure functions above, tabulated over the universe of the model:     *)
(* each table entry is the function's value, computed once.                *)
(***************************************************************************)
merchant_name_of == [d \in Descriptions |-> extract_merchant_name(d)]
is_zelle_payment_of == [d \in Descriptions |-> is_zelle_payment(d)]
zelle_recipient_of == [d \in Descriptions |-> extract_zelle_recipient(d)]
description_lower_of == [d \in Descriptions |-> str_strip(str_lower(d))]
\* keyword.lower() in description_lower
keyword_in == [k \in Keywords, d \in Descriptions |->
                  str_contains(str_lower(k), description_lower_of[d])]

(***************************************************************************)
(* State: the tables of the database, per user, and the server process.    *)
(***************************************************************************)
VARIABLES
    categories,             \* user -> rows of table categories, in insertion order
    transaction_overrides,  \* user -> (transaction_key -> new_category_name)
    merchant_mappings,      \* user -> (merchant_name -> category_name)
    zelle_recipients,       \* user -> (recipient_name -> category_name)
    next_id,                \* the next row id the database hands out
    hash_seed,              \* the string-hash secret of the running server process
    ops,                    \* number of writing requests served so far
    call,                   \* the latest call of categorize_expense, made in this state
    transactions,           \* user -> (transaction_key -> row of table transactions)
    response,               \* the response to the latest request, made in this state
    evaluation,             \* the latest application of a helper function to probe inputs
    upload                  \* the upload being processed row by row, with its preloads

tables == <<categories, transaction_overrides, merchant_mappings, zelle_recipients, next_id>>
vars == <<categories, transaction_overrides, merchant_mappings, zelle_recipients,
          next_id, hash_seed, ops, call, transactions, response, evaluation, upload>>

EmptyMap == <<>>
NoCall == [valid |-> FALSE]
NoResponse == [valid |-> FALSE]
NoEvaluation == [fn |-> "none"]
NoUpload == [pc |-> "idle"]

\* the response of an endpoint other than the upload: its HTTP status
JsonResponse(endpoint, status_code) ==
    [valid |-> FALSE, endpoint |-> endpoint, status_code |-> status_code]

\* an insert that leaves the row of an existing key as it is
MapPutIfAbsent(m, k, v) == [x \in DOMAIN m \cup {k} |-> IF x \in DOMAIN m THEN m[x] ELSE v]

\* dict.update of one item (an upsert on the key)
MapPut(m, k, v) == [x \in DOMAIN m \cup {k} |-> IF x = k THEN v ELSE m[x]]

(***************************************************************************)
(* DatabaseService and the helpers of main.py                              *)
(***************************************************************************)
\* the rows create_default_categories inserts
create_default_categories(user_id) ==
    [i \in 1..Len(DefaultCategories) |->
        [id |-> next_id + i - 1,
         name |-> DefaultCategories[i].name,
         keywords |-> DefaultCategories[i].keywords]]

\* a _get_categories_for_user that inserts the defaults whatever the user has
stored_after_reseeding(user_id) == categories[user_id] \o create_default_categories(user_id)

\* table categories of the user after _get_categories_for_user has run:
\* a user without categories is given the defaults
stored_after_get_categories(user_id) ==
    IF categories[user_id] = <<>> THEN create_default_categories(user_id)
    ELSE categories[user_id]

next_id_after_get_categories(user_id) ==
    IF categories[user_id] = <<>> THEN next_id + Len(DefaultCategories) ELSE next_id

\* what _get_categories_for_user returns: the rows in the frontend's shape
get_categories_for_user(user_id) ==
    LET rows == stored_after_get_categories(user_id)
    IN [i \in 1..Len(rows) |->
           [id |-> rows[i].id, name |-> rows[i].name, keywords |-> rows[i].keywords]]

\* hash(s) of a str in a process whose secret is seed
RECURSIVE py_hash_from(_, _)
py_hash_from(h, s) ==
    IF s = <<>> THEN h
    ELSE py_hash_from((h * 33 + Ord(Head(s))) % HashSpace, Tail(s))

py_hash(seed, s) == py_hash_from(seed, s)

py_hash_of == [seed \in 0..MaxSeed, d \in Descriptions |->
                  py_hash(seed, description_lower_of[d])]

(***************************************************************************)
(* categorize_expense. An argument is None (omitted) or Some(value).       *)
(* The result names the return statement taken (step) and tells whether    *)
(* _get_categories_for_user was called (fetched).                          *)
(***************************************************************************)
\* a keyword scan in which a later matching category replaces an earlier one
last_keyword_match(cats, description) ==
    LET Hit(i) == \E k \in 1..Len(cats[i].keywords) :
                      keyword_in[cats[i].keywords[k], description]
    IN IF \E i \in 1..Len(cats) : Hit(i)
       THEN CHOOSE i \in 1..Len(cats) : Hit(i) /\ \A j \in (i + 1)..Len(cats) : ~Hit(j)
       ELSE 0

first_keyword_match(cats, description) ==
    LET Hit(i) == \E k \in 1..Len(cats[i].keywords) :
                      keyword_in[cats[i].keywords[k], description]
    IN IF \E i \in 1..Len(cats) : Hit(i)
       THEN CHOOSE i \in 1..Len(cats) : Hit(i) /\ \A j \in 1..(i - 1) : ~Hit(j)
       ELSE 0

\* dict.get(key): None when the key is missing
\* get_transaction_key over the model's transactions
transaction_key_of ==
    [d \in Descriptions \cup IncomeDescriptions, a \in Amounts, dt \in KeyDates |->
        get_transaction_key(d, a, dt)]

dict_get(m, k) == IF k \in DOMAIN m THEN Some(m[k]) ELSE None

\* `if override_name:` : neither None nor the empty string
is_truthy(opt) == opt # None /\ opt.val # ""

\* `if recipient:` : neither None nor the empty text
is_truthy_text(opt) == opt # None /\ opt.val # <<>>

\* the override step: the name to return, or None to go on
override_step(overrides, description, amount, date) ==
    IF amount = None THEN None
    ELSE IF is_truthy(dict_get(overrides, transaction_key_of[description, amount.val, date]))
    THEN dict_get(overrides, transaction_key_of[description, amount.val, date])
    ELSE None

\* a Zelle step that looks for 'zelle payment to' without lower-casing the description
zelle_step_case_sensitive(zelle_map, description) ==
    IF /\ str_contains(Str_zelle_payment_to, description)
       /\ is_truthy_text(zelle_recipient_of[description])
       /\ zelle_recipient_of[description].val \in DOMAIN zelle_map
    THEN Some(zelle_map[zelle_recipient_of[description].val])
    ELSE None

\* the Zelle step
zelle_step(zelle_map, description) ==
    IF /\ is_zelle_payment_of[description]
       /\ is_truthy_text(zelle_recipient_of[description])
       /\ zelle_recipient_of[description].val \in DOMAIN zelle_map
    THEN Some(zelle_map[zelle_recipient_of[description].val])
    ELSE None

\* a merchant step that is not skipped for Zelle payments
merchant_step_for_any_description(merchant_map, description) ==
    IF merchant_name_of[description] \in DOMAIN merchant_map
    THEN Some(merchant_map[merchant_name_of[description]])
    ELSE None

\* the merchant step, skipped for Zelle payments
merchant_step(merchant_map, description) ==
    IF /\ ~is_zelle_payment_of[description]
       /\ merchant_name_of[description] \in DOMAIN merchant_map
    THEN Some(merchant_map[merchant_name_of[description]])
    ELSE None

\* the keyword loops
keyword_step(cats, description) ==
    IF first_keyword_match(cats, description) > 0
    THEN Some(cats[first_keyword_match(cats, description)].name)
    ELSE None

\* a fallback whose terminal case is 'Other', as in main_supabase.py
fallback_step_other(cats, description) ==
    IF Len(cats) > 0
    THEN [category |-> cats[(py_hash_of[hash_seed, description] % Len(cats)) + 1].name,
          status |-> "new", step |-> "fallback"]
    ELSE [category |-> "Other", status |-> "new", step |-> "uncategorized"]

\* the last two return statements: hash distribution, or no category at all
fallback_step(cats, description) ==
    IF Len(cats) > 0
    THEN [category |-> cats[(py_hash_of[hash_seed, description] % Len(cats)) + 1].name,
          status |-> "new", step |-> "fallback"]
    ELSE [category |-> "Uncategorized", status |-> "new", step |-> "uncategorized"]

\* the statements from `if categories is None` on, with the list they use
categorize_by_categories(cats, description) ==
    IF keyword_step(cats, description) # None
    THEN [category |-> keyword_step(cats, description).val, status |-> "saved",
          step |-> "keyword"]
    ELSE fallback_step(cats, description)

Saved(name, step) == [category |-> name.val, status |-> "saved", step |-> step]

\* the returns before the categories are looked at, or None
categorize_by_mappings(overrides, zelle_map, merchant_map, description, amount, date) ==
    IF override_step(overrides, description, amount, date) # None
    THEN Some(Saved(override_step(overrides, description, amount, date), "override"))
    ELSE IF zelle_step(zelle_map, description) # None
    THEN Some(Saved(zelle_step(zelle_map, description), "zelle"))
    ELSE IF merchant_step(merchant_map, description) # None
    THEN Some(Saved(merchant_step(merchant_map, description), "merchant"))
    ELSE None

WithList(result, fetched, cats) ==
    [category |-> result.category, status |-> result.status, step |-> result.step,
     fetched |-> fetched, category_list |-> cats]

categorize_expense(user_id, description, amount, date, overrides_arg, merchant_arg, zelle_arg, categories_arg) ==
    LET early == categorize_by_mappings(
                     IF overrides_arg = None THEN transaction_overrides[user_id]
                     ELSE overrides_arg.val,
                     IF zelle_arg = None THEN zelle_recipients[user_id] ELSE zelle_arg.val,
                     IF merchant_arg = None THEN merchant_mappings[user_id]
                     ELSE merchant_arg.val,
                     description, amount, date)
        cats == IF categories_arg = None THEN get_categories_for_user(user_id)
                ELSE categories_arg.val
    IN IF early # None THEN WithList(early.val, FALSE, <<>>)
       ELSE WithList(categorize_by_categories(cats, description),
                     categories_arg = None, cats)

(***************************************************************************)
(* Requests                                                                *)
(***************************************************************************)
\* POST /categories
create_category(user_id, name, keywords) ==
    LET rows == stored_after_get_categories(user_id)
        nid == next_id_after_get_categories(user_id)
        exists == \E i \in 1..Len(rows) : rows[i].name = name
        after == IF exists THEN rows
                 ELSE Append(rows, [id |-> nid, name |-> name, keywords |-> keywords])
    IN /\ ops < MaxOps
       /\ categories' = [categories EXCEPT ![user_id] = after]
       /\ next_id' = IF exists THEN nid ELSE nid + 1
       /\ ops' = ops + 1
       /\ call' = NoCall
       /\ response' = JsonResponse("create_category", IF exists THEN 400 ELSE 200)
       /\ UNCHANGED <<upload, evaluation, transaction_overrides, merchant_mappings, zelle_recipients, hash_seed,
                      transactions>>

\* PUT /categories/{category_id} : name and keywords are None or the new value
update_category(user_id, category_id, name, keywords) ==
    LET rows == categories[user_id]
        after == [i \in 1..Len(rows) |->
                     IF rows[i].id = category_id
                     THEN [id |-> rows[i].id,
                           name |-> IF name = None THEN rows[i].name ELSE name.val,
                           keywords |-> IF keywords = None THEN rows[i].keywords
                                        ELSE keywords.val]
                     ELSE rows[i]]
        no_updates == name = None /\ keywords = None
        updated == \E i \in 1..Len(rows) : rows[i].id = category_id
    IN /\ ops < MaxOps
       /\ categories' = [categories EXCEPT ![user_id] = after]
       /\ ops' = ops + 1
       /\ call' = NoCall
       /\ response' = JsonResponse("update_category",
                                   IF no_updates \/ updated THEN 200 ELSE 404)
       /\ UNCHANGED <<upload, evaluation, transaction_overrides, merchant_mappings, zelle_recipients,
                      next_id, hash_seed, transactions>>

\* POST /categories/migrate : the user's categories are deleted and the defaults created
migrate_categories_to_new_structure(user_id) ==
    /\ ops < MaxOps
    /\ categories' = [categories EXCEPT ![user_id] = create_default_categories(user_id)]
    /\ next_id' = next_id + Len(DefaultCategories)
    /\ ops' = ops + 1
    /\ call' = NoCall
    /\ response' = JsonResponse("migrate_categories_to_new_structure", 200)
    /\ UNCHANGED <<upload, evaluation, transaction_overrides, merchant_mappings, zelle_recipients,
                   hash_seed, transactions>>

\* DatabaseService.update_transaction_category: the row of that key, if there is one
update_transaction_category(rows, transaction_key, category_name) ==
    [k \in DOMAIN rows |->
        IF k = transaction_key
        THEN [rows[k] EXCEPT !.category = category_name, !.status = "saved"]
        ELSE rows[k]]

\* a PUT that saves the override without looking the category up
update_transaction_category_by_key_unchecked(user_id, transaction_key, category) ==
    /\ ops < MaxOps
    /\ categories' = [categories EXCEPT ![user_id] = stored_after_get_categories(user_id)]
    /\ next_id' = next_id_after_get_categories(user_id)
    /\ transaction_overrides' =
           [transaction_overrides EXCEPT ![user_id] = MapPut(@, transaction_key, category)]
    /\ transactions' =
           [transactions EXCEPT
                ![user_id] = update_transaction_category(@, transaction_key, category)]
    /\ ops' = ops + 1
    /\ call' = NoCall
    /\ response' = JsonResponse("update_transaction_category_by_key", 200)
    /\ UNCHANGED <<upload, evaluation, merchant_mappings, zelle_recipients, hash_seed>>

\* PUT /transactions/{transaction_key}/category
update_transaction_category_by_key(user_id, transaction_key, category) ==
    LET rows == stored_after_get_categories(user_id)
        found == \E i \in 1..Len(rows) : rows[i].name = category
    IN /\ ops < MaxOps
       /\ categories' = [categories EXCEPT ![user_id] = rows]
       /\ next_id' = next_id_after_get_categories(user_id)
       /\ transaction_overrides' =
              IF found
              THEN [transaction_overrides EXCEPT
                        ![user_id] = MapPut(@, transaction_key, category)]
              ELSE transaction_overrides
       /\ transactions' =
              IF found
              THEN [transactions EXCEPT
                        ![user_id] = update_transaction_category(@, transaction_key, category)]
              ELSE transactions
       /\ ops' = ops + 1
       /\ call' = NoCall
       /\ response' = JsonResponse("update_transaction_category_by_key",
                                   IF found THEN 200 ELSE 500)
       /\ UNCHANGED <<upload, evaluation, merchant_mappings, zelle_recipients, hash_seed>>

\* a learn that stores the mapping under the upper-cased description, not normalized
learn_under_description(user_id, description, category) ==
    LET ok == description # <<>> /\ category # ""
    IN /\ ops < MaxOps
       /\ categories' =
              IF ok THEN [categories EXCEPT ![user_id] = stored_after_get_categories(user_id)]
              ELSE categories
       /\ next_id' = IF ok THEN next_id_after_get_categories(user_id) ELSE next_id
       /\ merchant_mappings' =
              IF ok
              THEN [merchant_mappings EXCEPT
                        ![user_id] = MapPut(@, str_upper(description), category)]
              ELSE merchant_mappings
       /\ ops' = ops + 1
       /\ call' = NoCall
       /\ response' = JsonResponse("learn_from_transaction", IF ok THEN 200 ELSE 500)
       /\ UNCHANGED <<upload, evaluation, transaction_overrides, zelle_recipients, hash_seed,
                      transactions>>

\* POST /transactions/{transaction_key}/learn
learn_from_transaction(user_id, description, category) ==
    LET ok == description # <<>> /\ category # ""
        merchant_name == extract_merchant_name(description)
    IN /\ ops < MaxOps
       /\ categories' =
              IF ok THEN [categories EXCEPT ![user_id] = stored_after_get_categories(user_id)]
              ELSE categories
       /\ next_id' = IF ok THEN next_id_after_get_categories(user_id) ELSE next_id
       /\ merchant_mappings' =
              IF ok
              THEN [merchant_mappings EXCEPT ![user_id] = MapPut(@, merchant_name, category)]
              ELSE merchant_mappings
       /\ ops' = ops + 1
       /\ call' = NoCall
       /\ response' = JsonResponse("learn_from_transaction", IF ok THEN 200 ELSE 500)
       /\ UNCHANGED <<upload, evaluation, transaction_overrides, zelle_recipients, hash_seed, transactions>>

\* POST /zelle-recipients
add_zelle_recipient(user_id, recipient_name, category) ==
    LET ok == recipient_name # <<>> /\ category # ""
    IN /\ ops < MaxOps
       /\ categories' =
              IF ok THEN [categories EXCEPT ![user_id] = stored_after_get_categories(user_id)]
              ELSE categories
       /\ next_id' = IF ok THEN next_id_after_get_categories(user_id) ELSE next_id
       /\ zelle_recipients' =
              IF ok
              THEN [zelle_recipients EXCEPT ![user_id] = MapPut(@, recipient_name, category)]
              ELSE zelle_recipients
       /\ ops' = ops + 1
       /\ call' = NoCall
       /\ response' = JsonResponse("add_zelle_recipient", IF ok THEN 200 ELSE 500)
       /\ UNCHANGED <<upload, evaluation, transaction_overrides, merchant_mappings, hash_seed, transactions>>

\* the server process is started again: a new string-hash secret
Restart ==
    /\ \E s \in 0..MaxSeed : s # hash_seed /\ hash_seed' = s
    /\ UNCHANGED <<upload, evaluation, tables, ops, call, transactions, response>>

\* the combinations of omitted reference collections the model calls with
OmitChoices ==
    { {}, {"categories"}, {"overrides", "merchant_mappings", "zelle_mappings"},
      {"overrides", "merchant_mappings", "zelle_mappings", "categories"} }

\* the transactions (description, amount, date) the model resolves
Transactions ==
    { <<Desc_Publix, Some(ExpenseAmount), Some(Date_iso)>>,
      <<Desc_Zelle, Some(ExpenseAmount), None>>,
      <<Desc_Gym, Some(ExpenseAmount), None>>,
      <<Desc_Publix, None, None>> }

Arg(omitted, name, value) == IF name \in omitted THEN None ELSE Some(value)

\* a call of categorize_expense; a collection that is supplied is the stored one
Categorize(user_id, description, amount, date, omitted) ==
    LET overrides_arg == Arg(omitted, "overrides", transaction_overrides[user_id])
        merchant_arg == Arg(omitted, "merchant_mappings", merchant_mappings[user_id])
        zelle_arg == Arg(omitted, "zelle_mappings", zelle_recipients[user_id])
        categories_arg == Arg(omitted, "categories", categories[user_id])
        result == categorize_expense(user_id, description, amount, date,
                                     overrides_arg, merchant_arg, zelle_arg, categories_arg)
    IN /\ categories' = IF result.fetched
                        THEN [categories EXCEPT
                                  ![user_id] = stored_after_get_categories(user_id)]
                        ELSE categories
       /\ next_id' = IF result.fetched THEN next_id_after_get_categories(user_id)
                     ELSE next_id
       /\ call' = [valid |-> TRUE, user_id |-> user_id, description |-> description,
                   amount |-> amount, date |-> date, omitted |-> omitted,
                   category |-> result.category, status |-> result.status,
                   step |-> result.step, fetched |-> result.fetched,
                   category_list |-> result.category_list,
                   hash_seed |-> hash_seed,
                   categories_before |-> categories[user_id],
                   overrides_before |-> transaction_overrides[user_id],
                   merchants_before |-> merchant_mappings[user_id],
                   zelle_before |-> zelle_recipients[user_id]]
       /\ call' # call
       /\ response' = NoResponse
       /\ UNCHANGED <<upload, evaluation, transaction_overrides, merchant_mappings, zelle_recipients,
                      hash_seed, ops, transactions>>

(***************************************************************************)
(* Uploads. A file is one row: its description, its amount, the name of    *)
(* its date column (None: the file has no such column) and the date's text.*)
(***************************************************************************)
Str_payroll == <<"p","a","y","r","o","l","l">>
Str_salary == <<"s","a","l","a","r","y">>
Str_wages == <<"w","a","g","e","s">>
Str_refund == <<"r","e","f","u","n","d">>
Str_return == <<"r","e","t","u","r","n">>
Str_deposit == <<"d","e","p","o","s","i","t">>
Str_interest == <<"i","n","t","e","r","e","s","t">>
Str_dividend == <<"d","i","v","i","d","e","n","d">>
Str_date == <<"d","a","t","e">>
Str_Date == <<"D","a","t","e">>
Str_details == <<"d","e","t","a","i","l","s">>

DateColumns == {None, Some(Str_date), Some(Str_Date)}
Files ==
    { [description |-> d, amount |-> a, date_column |-> c, date |-> dt] :
          d \in {Desc_Publix, Desc_Gym}, a \in Amounts, c \in DateColumns,
          dt \in {Date_iso, Date_us} }
    \cup { [description |-> d, amount |-> IncomeAmount, date_column |-> None,
            date |-> Date_iso] : d \in IncomeDescriptions }

\* categorize_with_context for a row whose amount is not negative
income_category(description_lower) ==
    IF \/ str_contains(Str_payroll, description_lower)
       \/ str_contains(Str_salary, description_lower)
       \/ str_contains(Str_wages, description_lower) THEN "Payroll"
    ELSE IF \/ str_contains(Str_refund, description_lower)
            \/ str_contains(Str_return, description_lower) THEN "Refund"
    ELSE IF str_contains(Str_deposit, description_lower) THEN "Deposit"
    ELSE IF str_contains(Str_interest, description_lower) THEN "Interest"
    ELSE IF str_contains(Str_dividend, description_lower) THEN "Dividend"
    ELSE "Income"

income_category_of ==
    [d \in Descriptions \cup IncomeDescriptions |-> income_category(str_lower(d))]

\* 'date' in df.columns, while the rows are categorized
has_column_named_date(file) == file.date_column = Some(Str_date)

\* the loop that looks for date_column: the file has a column to show as the date
has_date_column(file) ==
    /\ file.date_column # None
    /\ \/ str_lower(file.date_column.val) = Str_details
       \/ str_contains(Str_date, str_lower(file.date_column.val))

IsIsoDate(s) ==
    /\ Len(s) = 10
    /\ s[5] = "-" /\ s[8] = "-"
    /\ \A i \in {1, 2, 3, 4, 6, 7, 9, 10} : IsDigit(s[i])

\* pd.to_datetime(.).dt.strftime('%m/%d/%Y'): year-month-day text is rewritten,
\* month/day/year text comes back as it is
strftime_mdY(s) ==
    IF IsIsoDate(s)
    THEN SubSeq(s, 6, 7) \o <<"/">> \o SubSeq(s, 9, 10) \o <<"/">> \o SubSeq(s, 1, 4)
    ELSE s

\* the date the row is categorized with
date_val_at_categorize(file) == IF has_column_named_date(file) THEN Some(file.date) ELSE None

\* the date add_transaction_key reads: column 'date' as the handler has set it
date_val_at_key(file) == IF has_date_column(file) THEN Some(strftime_mdY(file.date)) ELSE None

\* a categorization that looks for an override before it looks at the amount
categorize_with_context_override_first(user_id, file) ==
    LET key == transaction_key_of[file.description, file.amount, date_val_at_categorize(file)]
    IN IF key \in DOMAIN transaction_overrides[user_id]
       THEN [category |-> transaction_overrides[user_id][key], status |-> "saved",
             step |-> "override"]
       ELSE IF file.amount >= 0
       THEN [category |-> income_category_of[file.description], status |-> "income",
             step |-> "income"]
       ELSE LET result == categorize_expense(
                    user_id, file.description, Some(file.amount),
                    date_val_at_categorize(file),
                    Some(transaction_overrides[user_id]), Some(merchant_mappings[user_id]),
                    Some(zelle_recipients[user_id]), Some(get_categories_for_user(user_id)))
            IN [category |-> result.category, status |-> result.status,
                step |-> result.step]

\* categorize_with_context and get_status_with_context of the row
categorize_with_context(user_id, file) ==
    IF file.amount >= 0
    THEN [category |-> income_category_of[file.description], status |-> "income",
          step |-> "income"]
    ELSE LET result == categorize_expense(
                 user_id, file.description, Some(file.amount), date_val_at_categorize(file),
                 Some(transaction_overrides[user_id]), Some(merchant_mappings[user_id]),
                 Some(zelle_recipients[user_id]), Some(get_categories_for_user(user_id)))
         IN [category |-> result.category, status |-> result.status, step |-> result.step]

\* POST /process-expenses with one file (process_single_file_internal)
process_single_file_internal(user_id, file) ==
    LET result == categorize_with_context(user_id, file)
        transaction_key ==
            transaction_key_of[file.description, file.amount, date_val_at_key(file)]
        row == [description |-> file.description, amount |-> file.amount,
                date |-> date_val_at_key(file),
                category |-> result.category, status |-> result.status]
    IN /\ Cardinality(DOMAIN transactions[user_id] \cup {transaction_key}) <= MaxRows
       /\ categories' = [categories EXCEPT ![user_id] = stored_after_get_categories(user_id)]
       /\ next_id' = next_id_after_get_categories(user_id)
       /\ transactions' = [transactions EXCEPT ![user_id] = MapPut(@, transaction_key, row)]
       /\ response' =
              [valid |-> TRUE, user_id |-> user_id, file |-> file,
               category |-> result.category, status |-> result.status,
               step |-> result.step,
               transaction_key |-> transaction_key,
               lookup_key |-> transaction_key_of[file.description, file.amount,
                                                 date_val_at_categorize(file)]]
       /\ call' = NoCall
       /\ UNCHANGED <<upload, evaluation, transaction_overrides, merchant_mappings, zelle_recipients,
                      hash_seed, ops>>

(***************************************************************************)
(* The upload, step by step: the four preloads, then df.apply of           *)
(* categorize_with_context row by row, then df.apply of                    *)
(* get_status_with_context row by row, then the save. Other requests of    *)
(* the same user are served between the steps.                             *)
(***************************************************************************)
\* the files of the stepwise uploads: two expense rows and an income row
Row_Publix == [description |-> Desc_Publix, amount |-> ExpenseAmount, date_column |-> None, date |-> Date_iso]
Row_Gym == [description |-> Desc_Gym, amount |-> ExpenseAmount, date_column |-> None, date |-> Date_iso]
Row_Payroll == [description |-> Desc_Payroll, amount |-> IncomeAmount, date_column |-> None, date |-> Date_iso]
RowLists == {<<Row_Publix, Row_Gym>>, <<Row_Gym, Row_Payroll>>}

row_key(file) == transaction_key_of[file.description, file.amount, date_val_at_key(file)]

\* a resolution of the row against the tables as they are stored now
resolve_row_live(user_id, file, preload_overrides, preload_merchants, preload_zelle, preload_categories) ==
    categorize_expense(user_id, file.description, Some(file.amount),
                       date_val_at_categorize(file),
                       Some(transaction_overrides[user_id]), Some(merchant_mappings[user_id]),
                       Some(zelle_recipients[user_id]), Some(categories[user_id]))

\* categorize_expense as categorize_with_context and get_status_with_context call it
resolve_row(user_id, file, preload_overrides, preload_merchants, preload_zelle, preload_categories) ==
    categorize_expense(user_id, file.description, Some(file.amount),
                       date_val_at_categorize(file),
                       Some(preload_overrides), Some(preload_merchants),
                       Some(preload_zelle), Some(preload_categories))

\* categorize_with_context(row) of the upload in progress
category_of_row(file) ==
    IF file.amount >= 0 THEN income_category_of[file.description]
    ELSE resolve_row(upload.user_id, file, upload.preload_overrides,
                     upload.preload_merchants, upload.preload_zelle,
                     upload.preload_categories).category

\* get_status_with_context(row) of the upload in progress
status_of_row(file) ==
    IF file.amount >= 0 THEN "income"
    ELSE resolve_row(upload.user_id, file, upload.preload_overrides,
                     upload.preload_merchants, upload.preload_zelle,
                     upload.preload_categories).status

\* the upload starts and reads the overrides
PreloadOverrides(user_id, rows) ==
    /\ upload.pc \in {"idle", "done"}
    /\ Cardinality(DOMAIN transactions[user_id] \cup {row_key(rows[i]) : i \in 1..Len(rows)})
           <= MaxRows
    /\ upload' = [pc |-> "preload_merchants", user_id |-> user_id, rows |-> rows,
                  preload_overrides |-> transaction_overrides[user_id],
                  preload_merchants |-> EmptyMap, preload_zelle |-> EmptyMap,
                  preload_categories |-> <<>>, category |-> <<>>, status |-> <<>>]
    /\ call' = NoCall
    /\ response' = NoResponse
    /\ UNCHANGED <<tables, hash_seed, ops, transactions, evaluation>>

PreloadMerchants ==
    /\ upload.pc = "preload_merchants"
    /\ upload' = [upload EXCEPT !.pc = "preload_zelle",
                                !.preload_merchants = merchant_mappings[upload.user_id]]
    /\ UNCHANGED <<tables, hash_seed, ops, call, transactions, response, evaluation>>

PreloadZelle ==
    /\ upload.pc = "preload_zelle"
    /\ upload' = [upload EXCEPT !.pc = "preload_categories",
                                !.preload_zelle = zelle_recipients[upload.user_id]]
    /\ UNCHANGED <<tables, hash_seed, ops, call, transactions, response, evaluation>>

\* _get_categories_for_user, which creates the default categories of a user without any
PreloadCategories ==
    /\ upload.pc = "preload_categories"
    /\ upload' = [upload EXCEPT !.pc = "categorize",
                                !.preload_categories = get_categories_for_user(upload.user_id)]
    /\ categories' = [categories EXCEPT
                          ![upload.user_id] = stored_after_get_categories(upload.user_id)]
    /\ next_id' = next_id_after_get_categories(upload.user_id)
    /\ UNCHANGED <<transaction_overrides, merchant_mappings, zelle_recipients, hash_seed,
                   ops, call, transactions, response, evaluation>>

\* df.apply(categorize_with_context, axis=1), one row
CategorizeRow ==
    /\ upload.pc = "categorize"
    /\ upload' = [upload EXCEPT
                      !.category = Append(@, category_of_row(upload.rows[Len(@) + 1])),
                      !.pc = IF Len(upload.category) + 1 = Len(upload.rows)
                             THEN "status" ELSE "categorize"]
    /\ UNCHANGED <<tables, hash_seed, ops, call, transactions, response, evaluation>>

\* df.apply(get_status_with_context, axis=1), one row
StatusRow ==
    /\ upload.pc = "status"
    /\ upload' = [upload EXCEPT
                      !.status = Append(@, status_of_row(upload.rows[Len(@) + 1])),
                      !.pc = IF Len(upload.status) + 1 = Len(upload.rows)
                             THEN "save" ELSE "status"]
    /\ UNCHANGED <<tables, hash_seed, ops, call, transactions, response, evaluation>>

\* the row of table transactions for row i of the upload
saved_row(i) ==
    [description |-> upload.rows[i].description, amount |-> upload.rows[i].amount,
     date |-> date_val_at_key(upload.rows[i]),
     category |-> upload.category[i], status |-> upload.status[i]]

\* DatabaseService.save_transactions: an upsert of every row, in order
RECURSIVE save_transactions(_, _)
save_transactions(stored, i) ==
    IF i > Len(upload.rows) THEN stored
    ELSE save_transactions(MapPut(stored, row_key(upload.rows[i]), saved_row(i)), i + 1)

\* the rows are saved and the response is returned
SaveUpload ==
    /\ upload.pc = "save"
    /\ upload' = [upload EXCEPT !.pc = "done"]
    /\ transactions' = [transactions EXCEPT
                            ![upload.user_id] = save_transactions(@, 1)]
    /\ call' = NoCall
    /\ response' = JsonResponse("process_single_file_internal", 200)
    /\ UNCHANGED <<tables, hash_seed, ops, evaluation>>

\* a delete that matches no row
MapKeep(m, k) == [x \in DOMAIN m |-> m[x]]

MapRemove(m, k) == [x \in DOMAIN m \ {k} |-> m[x]]

\* a DELETE whose statement filters on the key alone: the override of every user goes
remove_override_of_every_user(user_id, transaction_key) ==
    /\ ops < MaxOps
    /\ transaction_overrides' =
           [v \in Users |-> MapRemove(transaction_overrides[v], transaction_key)]
    /\ ops' = ops + 1
    /\ call' = NoCall
    /\ response' = JsonResponse("remove_transaction_category_override",
                                IF \E v \in Users : transaction_key \in DOMAIN transaction_overrides[v]
                                THEN 200 ELSE 404)
    /\ UNCHANGED <<upload, evaluation, categories, merchant_mappings, zelle_recipients, next_id, hash_seed,
                   transactions>>

\* DELETE /transactions/{transaction_key}/category
remove_transaction_category_override(user_id, transaction_key) ==
    /\ ops < MaxOps
    /\ transaction_overrides' =
           [transaction_overrides EXCEPT ![user_id] = MapRemove(@, transaction_key)]
    /\ ops' = ops + 1
    /\ call' = NoCall
    /\ response' = JsonResponse("remove_transaction_category_override",
                                IF transaction_key \in DOMAIN transaction_overrides[user_id]
                                THEN 200 ELSE 404)
    /\ UNCHANGED <<upload, evaluation, categories, merchant_mappings, zelle_recipients, next_id, hash_seed,
                   transactions>>

\* DatabaseService.delete_category: the user's row of that id, if there is one
rows_after_delete_category(rows, category_id) ==
    SelectSeq(rows, LAMBDA c : c.id # category_id)

\* `cat.get('name') if cat else None` of the first stored category of that id
name_of_category(rows, category_id) ==
    IF \E i \in 1..Len(rows) : rows[i].id = category_id
    THEN Some(rows[CHOOSE i \in 1..Len(rows) :
                       /\ rows[i].id = category_id
                       /\ \A j \in 1..(i - 1) : rows[j].id # category_id].name)
    ELSE None

\* DELETE /categories/{category_id} : DatabaseService has no attribute
\* clear_category_references, so the call after the delete raises and the
\* handler's `except Exception` answers 500
delete_category(user_id, category_id) ==
    LET cat_name == name_of_category(categories[user_id], category_id)
    IN /\ ops < MaxOps
       /\ categories' =
              [categories EXCEPT ![user_id] = rows_after_delete_category(@, category_id)]
       /\ ops' = ops + 1
       /\ call' = NoCall
       /\ response' = JsonResponse("delete_category", IF is_truthy(cat_name) THEN 500 ELSE 200)
       /\ UNCHANGED <<upload, evaluation, transaction_overrides, merchant_mappings,
                      zelle_recipients, next_id, hash_seed, transactions>>

\* DELETE /zelle-recipients/{recipient_name}
delete_zelle_recipient(user_id, recipient_name) ==
    /\ ops < MaxOps
    /\ zelle_recipients' = [zelle_recipients EXCEPT ![user_id] = MapRemove(@, recipient_name)]
    /\ ops' = ops + 1
    /\ call' = NoCall
    /\ response' = JsonResponse("delete_zelle_recipient",
                                IF recipient_name \in DOMAIN zelle_recipients[user_id]
                                THEN 200 ELSE 404)
    /\ UNCHANGED <<upload, evaluation, categories, transaction_overrides, merchant_mappings,
                   next_id, hash_seed, transactions>>

\* the four steps of a reset, in the handler's order
ResetSteps == {"overrides", "merchant_mappings", "zelle_recipients", "transactions"}

\* DatabaseService.clear_all_*: a step that raises returns False and deletes nothing
clear_all(stored, failed) == IF failed THEN stored ELSE EmptyMap

\* DatabaseService.reset_all_transaction_categories: every row but the income rows
reset_rows(rows, failed) ==
    IF failed THEN rows
    ELSE [k \in DOMAIN rows |->
             IF rows[k].status # "income"
             THEN [rows[k] EXCEPT !.category = "Other", !.status = "new"]
             ELSE rows[k]]

\* POST /transactions/reset-categories : failed is the set of steps whose database
\* request raises; the handler drops the four return values
reset_all_transaction_categories(user_id, failed) ==
    /\ ops < MaxOps
    /\ transaction_overrides' =
           [transaction_overrides EXCEPT ![user_id] = clear_all(@, "overrides" \in failed)]
    /\ merchant_mappings' =
           [merchant_mappings EXCEPT ![user_id] = clear_all(@, "merchant_mappings" \in failed)]
    /\ zelle_recipients' =
           [zelle_recipients EXCEPT ![user_id] = clear_all(@, "zelle_recipients" \in failed)]
    /\ transactions' =
           [transactions EXCEPT ![user_id] = reset_rows(@, "transactions" \in failed)]
    /\ ops' = ops + 1
    /\ call' = NoCall
    /\ response' = [valid |-> FALSE, endpoint |-> "reset_all_transaction_categories",
                    status_code |-> 200, user_id |-> user_id, failed |-> failed]
    /\ UNCHANGED <<upload, evaluation, categories, next_id, hash_seed>>

(***************************************************************************)
(* POST /process-multiple-expenses. An uploaded file is its name and its   *)
(* one row.                                                                *)
(***************************************************************************)
Str_xlsx == <<".","x","l","s","x">>
Str_xls == <<".","x","l","s">>
Str_csv == <<".","c","s","v">>

str_endswith(s, suffix) == LiteralAt(s, Len(s) - Len(suffix) + 1, suffix)

\* `filename_lower.endswith(('.xlsx', '.xls', '.csv'))`
valid_file_type(filename) ==
    \E suffix \in {Str_xlsx, Str_xls, Str_csv} : str_endswith(str_lower(filename), suffix)

\* the summary of a processed file
file_summary(file) ==
    [total_expenses |-> IF file.amount < 0 THEN file.amount ELSE 0,
     total_income |-> IF file.amount >= 0 THEN file.amount ELSE 0,
     total_transactions |-> 1,
     expense_transactions |-> IF file.amount < 0 THEN 1 ELSE 0,
     income_transactions |-> IF file.amount >= 0 THEN 1 ELSE 0]

\* the summary of the report of a file whose processing raised
error_summary ==
    [total_expenses |-> 0, total_income |-> 0, total_transactions |-> 0,
     expense_transactions |-> 0, income_transactions |-> 0]

\* the row process_single_file_internal returns and saves for the file
processed_row(user_id, file) ==
    [description |-> file.description, amount |-> file.amount, date |-> date_val_at_key(file),
     category |-> categorize_with_context(user_id, file).category,
     status |-> categorize_with_context(user_id, file).status]

\* the report of one file: process_single_file_internal's result, or the error report
file_report(user_id, upload_file) ==
    IF valid_file_type(upload_file.filename)
    THEN [success |-> TRUE, filename |-> upload_file.filename,
          summary |-> file_summary(upload_file.file),
          transactions |-> <<processed_row(user_id, upload_file.file)>>]
    ELSE [success |-> FALSE, filename |-> upload_file.filename,
          summary |-> error_summary, transactions |-> <<>>]

\* the reports up to the first one that is not a success, that one included
reports_until_error(reports, bad) ==
    IF bad = {} THEN reports
    ELSE SubSeq(reports, 1, CHOOSE i \in bad : \A j \in bad : i <= j)

\* a loop that is left at the first file whose processing raises
file_reports_until_error(user_id, files) ==
    reports_until_error([i \in 1..Len(files) |-> file_report(user_id, files[i])],
                        {i \in 1..Len(files) : ~valid_file_type(files[i].filename)})

\* the loop over the files: one report appended per file, in the order of the files
file_reports(user_id, files) == [i \in 1..Len(files) |-> file_report(user_id, files[i])]

\* `all_expenses += result['summary']['total_expenses']` and the four lines after it
add_summary(before, summary) ==
    [total_expenses |-> before.total_expenses + summary.total_expenses,
     total_income |-> before.total_income + summary.total_income,
     total_transactions |-> before.total_transactions + summary.total_transactions,
     expense_transactions |-> before.expense_transactions + summary.expense_transactions,
     income_transactions |-> before.income_transactions + summary.income_transactions]

\* all_expenses, all_income, ... : what the loop has added up after the first n reports
RECURSIVE accumulated_totals(_, _)
accumulated_totals(reports, n) ==
    IF n = 0 THEN error_summary
    ELSE IF reports[n].success
    THEN add_summary(accumulated_totals(reports, n - 1), reports[n].summary)
    ELSE accumulated_totals(reports, n - 1)

\* a save that inserts: when the key is stored already, a row of its own under another key
save_file_row_as_insert(stored, user_id, file) ==
    IF transaction_key_of[file.description, file.amount, date_val_at_key(file)] \in DOMAIN stored
    THEN MapPut(stored,
                [prefix |-> file.description, hash |-> md5_hex8(<<"u","u","i","d","4">>)],
                processed_row(user_id, file))
    ELSE MapPut(stored, transaction_key_of[file.description, file.amount, date_val_at_key(file)],
                processed_row(user_id, file))

\* DatabaseService.save_transactions of the file's row
save_file_row(stored, user_id, file) ==
    MapPut(stored, transaction_key_of[file.description, file.amount, date_val_at_key(file)],
           processed_row(user_id, file))

\* the user's stored rows after the saves of the first n files
RECURSIVE rows_after_files(_, _, _, _)
rows_after_files(stored, user_id, files, n) ==
    IF n = 0 THEN stored
    ELSE IF valid_file_type(files[n].filename)
    THEN save_file_row(rows_after_files(stored, user_id, files, n - 1), user_id, files[n].file)
    ELSE rows_after_files(stored, user_id, files, n - 1)

\* `len([r for r in reports if r.get('success', False)])`
successful_files(reports) == Cardinality({i \in 1..Len(reports) : reports[i].success})

\* the body the handler returns
multiple_expenses_response(user_id, files, reports) ==
    [valid |-> FALSE, endpoint |-> "process_multiple_expenses", status_code |-> 200,
     user_id |-> user_id, files |-> files, reports |-> reports,
     summary |-> accumulated_totals(reports, Len(reports)),
     total_files |-> Len(files), successful_files |-> successful_files(reports)]

\* a file of the request is processed: _get_categories_for_user is reached
any_file_processed(files) == \E i \in 1..Len(files) : valid_file_type(files[i].filename)

\* POST /process-multiple-expenses
process_multiple_expenses(user_id, files) ==
    /\ Cardinality(DOMAIN rows_after_files(transactions[user_id], user_id, files, Len(files))) <= MaxRows
    /\ categories' =
           IF any_file_processed(files)
           THEN [categories EXCEPT ![user_id] = stored_after_get_categories(user_id)]
           ELSE categories
    /\ next_id' = IF any_file_processed(files) THEN next_id_after_get_categories(user_id)
                  ELSE next_id
    /\ transactions' =
           [transactions EXCEPT
                ![user_id] = rows_after_files(@, user_id, files, Len(files))]
    /\ response' =
           IF Len(files) = 0 THEN JsonResponse("process_multiple_expenses", 500)
           ELSE multiple_expenses_response(user_id, files, file_reports(user_id, files))
    /\ call' = NoCall
    /\ UNCHANGED <<upload, evaluation, transaction_overrides, merchant_mappings,
                   zelle_recipients, hash_seed, ops>>

Init ==
    /\ categories = [u \in Users |-> <<>>]
    /\ transaction_overrides = [u \in Users |-> EmptyMap]
    /\ merchant_mappings = [u \in Users |-> EmptyMap]
    /\ zelle_recipients = [u \in Users |-> EmptyMap]
    /\ next_id = 1
    /\ hash_seed \in 0..MaxSeed
    /\ ops = 0
    /\ call = NoCall
    /\ transactions = [u \in Users |-> EmptyMap]
    /\ response = NoResponse
    /\ evaluation = NoEvaluation
    /\ upload = NoUpload

Next ==
    \/ \E u \in ActiveUsers, c \in NewCategories : create_category(u, c.name, c.keywords)
    \/ \E u \in ActiveUsers, id \in 0..(next_id - 1), upd \in CategoryUpdates :
           update_category(u, id, upd[1], upd[2])
    \/ \E u \in ActiveUsers, t \in Transactions, c \in CategoryNames :
           /\ t[2] # None
           /\ update_transaction_category_by_key(
                  u, transaction_key_of[t[1], t[2].val, t[3]], c)
    \/ \E u \in ActiveUsers, d \in Descriptions, c \in CategoryNames :
           learn_from_transaction(u, d, c)
    \/ \E u \in ActiveUsers, c \in CategoryNames : add_zelle_recipient(u, Str_Doris, c)
    \/ Restart
    \/ \E u \in ActiveUsers, t \in Transactions, o \in OmitChoices :
           Categorize(u, t[1], t[2], t[3], o)

Spec == Init /\ [][Next]_vars

(***************************************************************************)
(* The specification of uploads: files are uploaded, and the client sets   *)
(* and removes overrides under the keys the uploads returned.              *)
(***************************************************************************)
NextUpload ==
    \/ \E u \in ActiveUsers, f \in Files : process_single_file_internal(u, f)
    \/ \E u \in ActiveUsers, c \in CategoryNames :
           \E k \in DOMAIN transactions[u] : update_transaction_category_by_key(u, k, c)
    \/ \E u \in ActiveUsers :
           \E k \in DOMAIN transactions[u] : remove_transaction_category_override(u, k)
    \/ \E u \in ActiveUsers : learn_from_transaction(u, Desc_Publix, "Fun")

SpecUpload == Init /\ [][NextUpload]_vars

(***************************************************************************)
(* The specification of an upload processed row by row while the same user *)
(* saves and deletes overrides, learns mappings and creates categories.    *)
(***************************************************************************)
RowKeys == {row_key(Row_Publix), row_key(Row_Gym)}

NextConcurrentUpload ==
    \/ \E u \in ActiveUsers, rows \in RowLists : PreloadOverrides(u, rows)
    \/ PreloadMerchants
    \/ PreloadZelle
    \/ PreloadCategories
    \/ CategorizeRow
    \/ StatusRow
    \/ SaveUpload
    \/ \E u \in ActiveUsers, k \in RowKeys, c \in {"Fun", Name_Groceries} :
           update_transaction_category_by_key(u, k, c)
    \/ \E u \in ActiveUsers, k \in RowKeys : remove_transaction_category_override(u, k)
    \/ \E u \in ActiveUsers, d \in {Desc_Publix, Desc_Gym} :
           learn_from_transaction(u, d, "Fun")
    \/ \E u \in ActiveUsers : create_category(u, "Fun", <<Str_ZELLE>>)

SpecConcurrentUpload == Init /\ [][NextConcurrentUpload]_vars

(***************************************************************************)
(* The specification of category management: categories are created,      *)
(* updated and migrated, and seeded by the requests that read them.        *)
(***************************************************************************)
NextCategories ==
    \/ \E u \in Users, c \in NewCategories : create_category(u, c.name, c.keywords)
    \/ \E u \in Users, id \in 0..(next_id - 1), upd \in CategoryUpdates :
           update_category(u, id, upd[1], upd[2])
    \/ \E u \in Users : migrate_categories_to_new_structure(u)

SpecCategories == Init /\ [][NextCategories]_vars

(***************************************************************************)
(* The specification of maintenance: a user creates, renames and deletes   *)
(* categories, save and delete overrides, learn merchants, save and delete *)
(* recipients, reset and upload, and their transactions are resolved.      *)
(***************************************************************************)
\* the files of the maintenance uploads: an expense row and an income row
MaintenanceFiles ==
    { [description |-> Desc_Publix, amount |-> ExpenseAmount, date_column |-> None,
       date |-> Date_iso],
      [description |-> Desc_Payroll, amount |-> IncomeAmount, date_column |-> None,
       date |-> Date_iso] }

\* the key of the expense row of the maintenance uploads
MaintenanceKey == transaction_key_of[Desc_Publix, ExpenseAmount, None]

\* the descriptions and categories of the learn requests of the maintenance
LearnDescriptions == {<<>>, Desc_Publix}
LearnCategories == {"", "Fun"}

\* the steps of one reset that fail: none, or one of the four
ResetFailures == {{}} \cup {{step} : step \in ResetSteps}

NextMaintenance ==
    \/ \E u \in ActiveUsers : create_category(u, "Fun", <<>>)
    \/ \E u \in ActiveUsers, id \in 0..(next_id - 1) : update_category(u, id, Some("Fun"), None)
    \/ \E u \in ActiveUsers, id \in 0..(next_id - 1) : delete_category(u, id)
    \/ \E u \in ActiveUsers, c \in {"Fun", Name_Groceries} :
           update_transaction_category_by_key(u, MaintenanceKey, c)
    \/ \E u \in ActiveUsers : remove_transaction_category_override(u, MaintenanceKey)
    \/ \E u \in ActiveUsers, d \in LearnDescriptions, c \in LearnCategories :
           learn_from_transaction(u, d, c)
    \/ \E u \in ActiveUsers : add_zelle_recipient(u, Str_Doris, Name_Groceries)
    \/ \E u \in ActiveUsers : delete_zelle_recipient(u, Str_Doris)
    \/ \E u \in ActiveUsers, failed \in ResetFailures :
           reset_all_transaction_categories(u, failed)
    \/ \E u \in ActiveUsers, f \in MaintenanceFiles : process_single_file_internal(u, f)
    \/ \E u \in ActiveUsers, d \in {Desc_Publix, Desc_Zelle} :
           Categorize(u, d, Some(ExpenseAmount), None, {})

SpecMaintenance == Init /\ [][NextMaintenance]_vars

(***************************************************************************)
(* The specification of uploads of several files: lists of files, some of  *)
(* a type the handler rejects, are uploaded, and merchants are learned.    *)
(***************************************************************************)
\* "may.CSV" and "notes.txt"
Filename_csv == <<"m","a","y",".","C","S","V">>
Filename_txt == <<"n","o","t","e","s",".","t","x","t">>

\* the rows of the uploaded files: two expense rows and an income row
UploadRows ==
    { [description |-> d, amount |-> ExpenseAmount, date_column |-> None, date |-> Date_iso] :
          d \in {Desc_Publix, Desc_Gym} }
    \cup { [description |-> Desc_Payroll, amount |-> IncomeAmount, date_column |-> None,
            date |-> Date_iso] }

\* the uploaded files: each row in a CSV file, and one file of a rejected type
UploadFiles ==
    { [filename |-> Filename_csv, file |-> r] : r \in UploadRows }
    \cup { [filename |-> Filename_txt,
            file |-> [description |-> Desc_Publix, amount |-> ExpenseAmount,
                      date_column |-> None, date |-> Date_iso]] }

\* the most files of one request
MaxFiles == 2

\* the lists of files of a request
UploadFileLists ==
    UNION { [1..n -> UploadFiles] : n \in 0..MaxFiles }

NextMultiUpload ==
    \/ \E u \in ActiveUsers, files \in UploadFileLists : process_multiple_expenses(u, files)
    \/ \E u \in ActiveUsers, d \in {Desc_Publix, Desc_Gym} :
           learn_from_transaction(u, d, "Fun")

SpecMultiUpload == Init /\ [][NextMultiUpload]_vars

(***************************************************************************)
(* The specification of two users: each of them sends every request that   *)
(* writes, and has a transaction resolved.                                 *)
(***************************************************************************)
\* the file of the uploads of the two users: an expense row
IsolationFile ==
    [description |-> Desc_Publix, amount |-> ExpenseAmount, date_column |-> None,
     date |-> Date_iso]

\* the requests of one user
RequestOf(u) ==
    \/ create_category(u, "Fun", <<>>)
    \/ \E id \in 0..(next_id - 1) : update_category(u, id, Some("Fun"), None)
    \/ \E id \in 0..(next_id - 1) : delete_category(u, id)
    \/ update_transaction_category_by_key(u, MaintenanceKey, Name_Groceries)
    \/ remove_transaction_category_override(u, MaintenanceKey)
    \/ learn_from_transaction(u, Desc_Publix, "Fun")
    \/ add_zelle_recipient(u, Str_Doris, Name_Groceries)
    \/ delete_zelle_recipient(u, Str_Doris)
    \/ reset_all_transaction_categories(u, {})
    \/ process_single_file_internal(u, IsolationFile)
    \/ Categorize(u, Desc_Publix, Some(ExpenseAmount), None, {})

NextIsolation == \E u \in Users : RequestOf(u)

SpecIsolation == Init /\ [][NextIsolation]_vars

(***************************************************************************)
(* The latest call of categorize_expense, in the words of the resolver's   *)
(* decision order. The collections a call reads are the stored ones, as    *)
(* they were when it was made.                                             *)
(***************************************************************************)
CallKey == transaction_key_of[call.description, call.amount.val, call.date]

\* the call's transaction has a non-null amount and its key is in overrides
CallHasOverride == call.amount # None /\ CallKey \in DOMAIN call.overrides_before

\* the description contains 'zelle payment to', whatever the case of its letters
CallIsTransfer == str_contains(Str_zelle_payment_to, str_lower(call.description))

\* the description is a transfer whose extracted recipient is a key of recipient_map
CallRecipientMapped ==
    /\ CallIsTransfer
    /\ zelle_recipient_of[call.description] # None
    /\ zelle_recipient_of[call.description].val \in DOMAIN call.zelle_before

\* the normalized merchant of the description is a key of merchant_map
CallMerchantInMap == merchant_name_of[call.description] \in DOMAIN call.merchants_before

\* the merchant mapping applies: not a transfer, and the merchant is mapped
CallMerchantMapped == ~CallIsTransfer /\ CallMerchantInMap

\* no override, recipient mapping or merchant mapping applies
CallReachesCategories == ~CallHasOverride /\ ~CallRecipientMapped /\ ~CallMerchantMapped

\* the category list of the call: the supplied one, or the user's stored categories
\* as _get_categories_for_user leaves them
CallCategories ==
    IF "categories" \in call.omitted THEN categories[call.user_id]
    ELSE call.categories_before

\* category i of the call's list has a keyword that, lower-cased, is a substring of
\* the trimmed lower-cased description
CallKeywordHit(i) ==
    \E k \in 1..Len(CallCategories[i].keywords) :
        str_contains(str_lower(CallCategories[i].keywords[k]),
                     description_lower_of[call.description])

CallKeywordMatches == \E i \in 1..Len(CallCategories) : CallKeywordHit(i)

\* the call returned the name of the first category of its list that matches
CallReturnedFirstMatch ==
    \E i \in 1..Len(CallCategories) :
        /\ CallKeywordHit(i)
        /\ \A j \in 1..(i - 1) : ~CallKeywordHit(j)
        /\ call.category = CallCategories[i].name
        /\ call.status = "saved"

\* the call returned one of its categories, or 'Uncategorized' if it has none, as new
CallReturnedFallback ==
    /\ call.status = "new"
    /\ IF CallCategories = <<>> THEN call.category = "Uncategorized"
       ELSE \E i \in 1..Len(CallCategories) : call.category = CallCategories[i].name

(***************************************************************************)
(* C1. A transaction with a non-null amount whose key is in overrides      *)
(* resolves to (overrides[key], 'saved'), whatever else matches and        *)
(* whatever the override's category name is.                               *)
(***************************************************************************)
C1_OverrideWins ==
    (call.valid /\ CallHasOverride)
        => (call.category = call.overrides_before[CallKey] /\ call.status = "saved")

(***************************************************************************)
(* C3. With no matching override, a transfer whose extracted recipient is  *)
(* a key of recipient_map resolves to (recipient_map[recipient], 'saved'), *)
(* even when a category keyword matches the description too.               *)
(***************************************************************************)
C3_RecipientMappingDecides ==
    (call.valid /\ ~CallHasOverride /\ CallRecipientMapped)
        => /\ call.category = call.zelle_before[zelle_recipient_of[call.description].val]
           /\ call.status = "saved"

\* a mapped transfer was resolved while a keyword of another category matched it
C3_Witness ==
    /\ call.valid /\ ~CallHasOverride /\ CallRecipientMapped
    /\ \E i \in 1..Len(categories[call.user_id]) :
           /\ \E k \in 1..Len(categories[call.user_id][i].keywords) :
                  keyword_in[categories[call.user_id][i].keywords[k], call.description]
           /\ categories[call.user_id][i].name # call.category
    /\ call.status = "saved"

(***************************************************************************)
(* C4. The merchant mapping applies exactly to non-transfers: with no      *)
(* matching override, a non-transfer whose normalized merchant is a key of *)
(* merchant_map resolves to (merchant_map[merchant], 'saved') ahead of any *)
(* keyword; a transfer with no override and no mapped recipient is decided *)
(* by keyword match or fallback even if its merchant is a key of           *)
(* merchant_map.                                                           *)
(***************************************************************************)
C4_MerchantMappingOnlyForNonTransfers ==
    /\ (call.valid /\ ~CallHasOverride /\ CallMerchantMapped)
           => /\ call.category = call.merchants_before[merchant_name_of[call.description]]
              /\ call.status = "saved"
    /\ (call.valid /\ ~CallHasOverride /\ CallIsTransfer /\ ~CallRecipientMapped)
           => IF CallKeywordMatches THEN CallReturnedFirstMatch ELSE CallReturnedFallback

\* a transfer whose merchant is mapped, with no mapped recipient, was resolved,
\* and not to the category its merchant is mapped to
C4_Witness ==
    /\ call.valid /\ ~CallHasOverride /\ CallIsTransfer /\ ~CallRecipientMapped
    /\ CallMerchantInMap
    /\ call.category # call.merchants_before[merchant_name_of[call.description]]

(***************************************************************************)
(* C5. When no override, recipient mapping or merchant mapping applies,    *)
(* the categories are scanned in their order and the result is (name of    *)
(* the first category with a keyword that is a case-insensitive substring  *)
(* of the trimmed lower-cased description, 'saved'): a later category that *)
(* matches too never wins.                                                 *)
(***************************************************************************)
C5_FirstKeywordMatchWins ==
    (call.valid /\ CallReachesCategories /\ CallKeywordMatches) => CallReturnedFirstMatch

\* two categories of different names match, and the call returned the earlier one
C5_Witness ==
    /\ call.valid /\ CallReachesCategories
    /\ \E i, j \in 1..Len(CallCategories) :
           /\ i < j
           /\ CallKeywordHit(i) /\ CallKeywordHit(j)
           /\ CallCategories[i].name # CallCategories[j].name
           /\ call.category = CallCategories[i].name

(***************************************************************************)
(* C6. With at least one category and no override, recipient mapping,      *)
(* merchant mapping or keyword match, the result is (c, 'new') with c the  *)
(* name of one of the categories, and c is never the empty name.           *)
(***************************************************************************)
C6_FallbackReturnsNonEmptyCategory ==
    (call.valid /\ CallReachesCategories /\ ~CallKeywordMatches /\ Len(CallCategories) >= 1)
        => /\ call.status = "new"
           /\ \E i \in 1..Len(CallCategories) : call.category = CallCategories[i].name
           /\ call.category # ""

(***************************************************************************)
(* C7. With an empty category list and no override, recipient mapping or   *)
(* merchant mapping, the result is ('Uncategorized', 'new').               *)
(***************************************************************************)
C7_NoCategoriesIsUncategorized ==
    (call.valid /\ CallReachesCategories /\ CallCategories = <<>>)
        => (call.category = "Uncategorized" /\ call.status = "new")

\* a call was made with an empty category list and none of the mappings applying
C7_Witness ==
    /\ call.valid /\ CallReachesCategories /\ CallCategories = <<>>
    /\ call.category = "Uncategorized"

(***************************************************************************)
(* C8. The status is 'saved' or 'new', and it is 'new' exactly when none   *)
(* of override, recipient mapping, merchant mapping or keyword matched.    *)
(***************************************************************************)
C8_StatusNewIffNothingMatched ==
    call.valid
        => /\ call.status \in {"saved", "new"}
           /\ call.status = "new"
                  <=> ~(\/ CallHasOverride
                        \/ CallRecipientMapped
                        \/ CallMerchantMapped
                        \/ CallKeywordMatches)

(***************************************************************************)
(* C9. The fallback choice is deterministic: two calls that fall back with *)
(* the same description and the same ordered category list select the same *)
(* category, also when the server process was started again in between.    *)
(***************************************************************************)
C9_FallbackIsDeterministic ==
    [][ ( /\ call.valid /\ call'.valid
          /\ call.step = "fallback" /\ call'.step = "fallback"
          /\ call'.description = call.description
          /\ call'.category_list = call.category_list )
            => call'.category = call.category ]_vars

C2_ReturnedKeyIsLookupKey ==
    (response.valid /\ response.file.amount < 0)
        => /\ response.transaction_key = response.lookup_key
           /\ response.transaction_key \in DOMAIN transactions[response.user_id]
           /\ response.transaction_key \in DOMAIN transaction_overrides[response.user_id]
                  => /\ response.category
                            = transaction_overrides[response.user_id][response.transaction_key]
                     /\ response.status = "saved"

(***************************************************************************)
(* The specification of the helper functions: a run applies one of them,   *)
(* once, to inputs drawn from bounded sets and records what it returned.   *)
(***************************************************************************)
ProbeKeyDescriptions == {Desc_Publix, Desc_Gym}
ProbeAmounts == {ExpenseAmount, IncomeAmount, 0}
ProbeDates == {None, Some(<<>>), Some(Date_iso), Some(Date_us)}

\* one application of get_transaction_key, with the string it hashes
key_evaluation(description, amount, date) ==
    [amount |-> amount,
     date |-> date,
     transaction_string |-> transaction_string(description, amount, date),
     key |-> get_transaction_key(description, amount, date)]

\* get_transaction_key applied to one description with two (amount, date) pairs
EvalTransactionKeys(description, amount1, date1, amount2, date2) ==
    /\ evaluation = NoEvaluation
    /\ evaluation' = [fn |-> "get_transaction_key",
                      description |-> description,
                      first |-> key_evaluation(description, amount1, date1),
                      second |-> key_evaluation(description, amount2, date2)]
    /\ UNCHANGED <<tables, hash_seed, ops, call, transactions, response, upload>>

\* descriptions in pairs that differ only in one piece of noise: prefix, the two
\* pieces, suffix
NoiseVariants ==
    {[kind |-> "store_number", prefix |-> <<"W","A","L","M","A","R","T"," ">>,
      noise |-> <<<<"#","0","3">>, <<"#","0","5","9","2","4">>>>,
      suffix |-> <<>>],
     [kind |-> "digit_run", prefix |-> <<"S","H","O","P"," ">>,
      noise |-> <<<<"1","2","3">>, <<"4","5","6","7">>>>,
      suffix |-> <<" ","M","A","I","N">>],
     [kind |-> "short_date", prefix |-> <<"G","Y","M"," ">>,
      noise |-> <<<<"0","3","/","0","1">>, <<"1","2","/","3","1">>>>,
      suffix |-> <<>>],
     [kind |-> "full_date", prefix |-> <<"S","H","O","P"," ">>,
      noise |-> <<<<"0","3","/","0","1","/","2","0","2","4">>,
                  <<"0","3","/","0","1","/","2","0","2","5">>>>,
      suffix |-> <<>>],
     [kind |-> "long_number", prefix |-> <<"G","Y","M"," ">>,
      noise |-> <<<<"1","2","3","4","5","6","7">>, <<"7","6","5","4","3","2","1">>>>,
      suffix |-> <<>>],
     [kind |-> "transaction_id", prefix |-> <<"G","Y","M"," ">>,
      noise |-> <<<<"*","A","B","1","2","C","D","3">>, <<"*","Z","Z","9","9","Y","Y","1">>>>,
      suffix |-> <<>>],
     [kind |-> "mktpl_token", prefix |-> <<"A","M","A","Z","O","N"," ">>,
      noise |-> <<<<"M","K","T","P","L","*","A","B","1","2","C","D","3","4">>,
                  <<"M","K","T","P","L","*","Z","Z","9","9","Y","Y","1","1">>>>,
      suffix |-> <<" ","S","E","A","T","T","L","E"," ","W","A">>]}

NoiseVariant(v, i) == v.prefix \o v.noise[i] \o v.suffix

\* descriptions that are empty or nothing but removable noise
NoiseOnlyDescriptions ==
    {<<>>, <<"1","2","/","3","1">>, <<"#","0","3">>, <<"1","2","3","4","5","6","7">>}

ProbeDescriptions ==
    {NoiseVariant(v, i) : v \in NoiseVariants, i \in {1, 2}} \cup NoiseOnlyDescriptions

\* one application of extract_merchant_name
merchant_evaluation(description) ==
    [description |-> description, merchant |-> extract_merchant_name(description)]

\* extract_merchant_name applied to two descriptions
EvalMerchantNames(description1, description2) ==
    /\ evaluation = NoEvaluation
    /\ evaluation' = [fn |-> "extract_merchant_name",
                      first |-> merchant_evaluation(description1),
                      second |-> merchant_evaluation(description2)]
    /\ UNCHANGED <<tables, hash_seed, ops, call, transactions, response, upload>>

\* descriptions 'Zelle payment to <name> <digits>': the phrase in three letter cases,
\* names with the recipient they stand for, digit runs
ZellePhrases ==
    {<<"Z","e","l","l","e"," ","p","a","y","m","e","n","t"," ","t","o">>,
     <<"Z","E","L","L","E"," ","P","A","Y","M","E","N","T"," ","T","O">>,
     <<"z","e","l","l","e"," ","p","a","y","m","e","n","t"," ","t","o">>}
ZelleNames ==
    {[name |-> <<"D","o","r","i","s">>, recipient |-> <<"D","o","r","i","s">>],
     [name |-> <<"d","o","r","i","s"," ","m","c">>,
      recipient |-> <<"D","o","r","i","s"," ","M","c">>],
     [name |-> <<"Y","A","M","I","L","K","A"," "," ","M","A","I","K","E","L">>,
      recipient |-> <<"Y","a","m","i","l","k","a"," "," ","M","a","i","k","e","l">>]}
ZelleDigits == {<<"2","5","8","5","8","1","4","4","7","3","2">>, <<"1">>}

ZelleDescription(phrase, name, digits) == phrase \o <<" ">> \o name \o <<" ">> \o digits

\* descriptions that are no transfer, or a transfer without a name
OtherDescriptions ==
    {<<>>, Desc_Gym, Desc_Publix,
     <<"Z","e","l","l","e"," ","p","a","y","m","e","n","t"," ","f","r","o","m"," ","D","o","r","i","s"," ","1">>,
     <<"z","e","l","l","e"," ","p","a","y","m","e","n","t"," ","t","o"," ","5","5","5">>}

ZelleProbes ==
    {ZelleDescription(p, n.name, d) : p \in ZellePhrases, n \in ZelleNames, d \in ZelleDigits}
        \cup OtherDescriptions

\* the Zelle branch of categorize_expense: extraction is attempted for Zelle payments
zelle_branch(description) ==
    IF is_zelle_payment(description)
    THEN [attempted |-> TRUE, recipient |-> extract_zelle_recipient(description)]
    ELSE [attempted |-> FALSE]

\* is_zelle_payment, extract_zelle_recipient and the resolver's branch on one description
EvalZelleRecipient(description) ==
    /\ evaluation = NoEvaluation
    /\ evaluation' = [fn |-> "extract_zelle_recipient",
                      description |-> description,
                      is_zelle_payment |-> is_zelle_payment(description),
                      recipient |-> extract_zelle_recipient(description),
                      resolver |-> zelle_branch(description)]
    /\ UNCHANGED <<tables, hash_seed, ops, call, transactions, response, upload>>

NextHelpers ==
    \/ \E d \in ZelleProbes : EvalZelleRecipient(d)
    \/ \E d1 \in ProbeDescriptions, d2 \in ProbeDescriptions : EvalMerchantNames(d1, d2)
    \/ \E d \in ProbeKeyDescriptions, a1 \in ProbeAmounts, a2 \in ProbeAmounts :
           \E dt1 \in ProbeDates, dt2 \in ProbeDates : EvalTransactionKeys(d, a1, dt1, a2, dt2)

SpecHelpers == Init /\ [][NextHelpers]_vars

C12_MerchantTokenNonEmpty ==
    evaluation.fn = "extract_merchant_name" =>
        /\ evaluation.first.merchant # <<>>
        /\ evaluation.second.merchant # <<>>

\* the two descriptions evaluated differ only in one piece of noise
EvaluatedNoiseVariants ==
    \E v \in NoiseVariants :
        /\ evaluation.first.description = NoiseVariant(v, 1)
        /\ evaluation.second.description = NoiseVariant(v, 2)

\* C13: two descriptions that differ only in a store number, a date-like substring or
\* a reference / transaction-id suffix normalize to the same merchant token
C13_NoiseVariantsSameMerchant ==
    (evaluation.fn = "extract_merchant_name" /\ EvaluatedNoiseVariants) =>
        evaluation.first.merchant = evaluation.second.merchant

\* the evaluated description contains 'zelle payment to', whatever the case of its letters
EvaluatedTransfer == str_contains(Str_zelle_payment_to, str_lower(evaluation.description))

\* C14: extract_zelle_recipient returns a value only where is_zelle_payment is true, the
\* resolver attempts extraction only there, a non-transfer description has no value, and
\* for 'Zelle payment to <name> <digits>' in any letter case the value is the trimmed,
\* title-cased text between the phrase and the first digit after it
C14_RecipientOnlyForTransfers ==
    evaluation.fn = "extract_zelle_recipient" =>
        /\ evaluation.is_zelle_payment <=> EvaluatedTransfer
        /\ evaluation.recipient # None => evaluation.is_zelle_payment
        /\ evaluation.resolver.attempted => evaluation.is_zelle_payment
        /\ ~EvaluatedTransfer => evaluation.recipient = None
        /\ \A p \in ZellePhrases, n \in ZelleNames, d \in ZelleDigits :
               evaluation.description = ZelleDescription(p, n.name, d)
                   => /\ evaluation.recipient = Some(n.recipient)
                      /\ evaluation.resolver.attempted
                      /\ evaluation.resolver.recipient = Some(n.recipient)

\* an upper-case transfer to a lower-case two-word name was evaluated
C14_Witness ==
    /\ evaluation.fn = "extract_zelle_recipient"
    /\ evaluation.description
           = ZelleDescription(<<"Z","E","L","L","E"," ","P","A","Y","M","E","N","T"," ","T","O">>,
                              <<"d","o","r","i","s"," ","m","c">>, <<"1">>)
    /\ evaluation.recipient = Some(<<"D","o","r","i","s"," ","M","c">>)

\* after is before with exactly the entry of key k set to v: one entry per key, the
\* other entries as they were
Upserted(before, after, k, v) ==
    /\ DOMAIN after = DOMAIN before \cup {k}
    /\ after[k] = v
    /\ \A x \in DOMAIN before \ {k} : after[x] = before[x]

Answered(r, endpoint, status_code) ==
    /\ r.valid = FALSE /\ r # NoResponse
    /\ r.endpoint = endpoint /\ r.status_code = status_code

\* the step is a successful learn of category c from description d: the mapping from
\* the merchant token of d to c is stored
LearnStoresMapping ==
    \A u \in ActiveUsers, d \in Descriptions, c \in CategoryNames :
        (Answered(response', "learn_from_transaction", 200) /\ learn_from_transaction(u, d, c))
            => /\ merchant_name_of[d] \in DOMAIN merchant_mappings'[u]
               /\ merchant_mappings'[u][merchant_name_of[d]] = c

\* a step that is not a learn leaves the stored mappings as they are
MappingStaysUntilLearn ==
    ~Answered(response', "learn_from_transaction", 200) => merchant_mappings' = merchant_mappings

\* the step is a resolution of a transaction without an override whose merchant token
\* has a stored mapping
ResolvesMappedMerchant ==
    /\ call'.valid /\ call' # call /\ call'.amount # None
    /\ transaction_key_of[call'.description, call'.amount.val, call'.date]
           \notin DOMAIN transaction_overrides[call'.user_id]
    /\ merchant_name_of[call'.description] \in DOMAIN merchant_mappings[call'.user_id]

ResolvedToStoredMapping ==
    /\ call'.category = merchant_mappings[call'.user_id][merchant_name_of[call'.description]]
    /\ call'.status = "saved"

\* C16 as stated: once m -> c is learned from d, every later resolution of a transaction
\* without an override whose merchant token is m, d itself included, returns
\* (c, 'saved'), until the mapping is overwritten
C16_LearnedMappingDecidesEveryDescription ==
    [][ /\ LearnStoresMapping
        /\ MappingStaysUntilLearn
        /\ ResolvesMappedMerchant => ResolvedToStoredMapping
      ]_vars

\* C16, amended: the same for every transaction that is not a Zelle payment
C16_LearnedMappingDecidesNonTransfers ==
    [][ /\ LearnStoresMapping
        /\ MappingStaysUntilLearn
        /\ (ResolvesMappedMerchant /\ ~is_zelle_payment_of[call'.description])
               => ResolvedToStoredMapping
      ]_vars

\* the description a mapping to 'Fun' was learned from was resolved after it, the
\* stored mappings being fetched by the resolver, to ('Fun', 'saved')
C16_Witness ==
    /\ call.valid /\ ~CallHasOverride /\ ~CallIsTransfer
    /\ "merchant_mappings" \in call.omitted
    /\ call.description = Desc_Publix
    /\ merchant_name_of[Desc_Publix] \in DOMAIN merchant_mappings[call.user_id]
    /\ merchant_mappings[call.user_id][merchant_name_of[Desc_Publix]] = "Fun"
    /\ call.category = "Fun" /\ call.status = "saved"

\* the income label of each description the model uploads
IncomeLabels ==
    (Desc_Payroll :> "Payroll") @@ (Desc_Return :> "Refund")
        @@ (Desc_Publix :> "Income") @@ (Desc_Gym :> "Income")

\* C17: in an upload a row with amount >= 0 gets status 'income' and the income label
\* of its description, without the resolver, whatever overrides and mappings are stored;
\* the resolver decides exactly the rows with amount < 0
C17_IncomeRowsBypassResolver ==
    response.valid =>
        /\ response.file.amount >= 0 =>
               /\ response.status = "income"
               /\ response.step = "income"
               /\ response.category = IncomeLabels[response.file.description]
               /\ response.category
                      \in {"Payroll", "Refund", "Deposit", "Interest", "Dividend", "Income"}
        /\ response.file.amount < 0 =>
               /\ response.step # "income"
               /\ response.status \in {"saved", "new"}
        /\ transactions[response.user_id][response.transaction_key].category
               = response.category
        /\ transactions[response.user_id][response.transaction_key].status = response.status

\* an income row was uploaded while an override is stored under its key and its
\* merchant token has a mapping
C17_Witness ==
    /\ response.valid /\ response.file.amount >= 0
    /\ response.file.description = Desc_Publix
    /\ response.status = "income"
    /\ response.lookup_key \in DOMAIN transaction_overrides[response.user_id]
    /\ response.transaction_key \in DOMAIN transaction_overrides[response.user_id]
    /\ merchant_name_of[response.file.description]
           \in DOMAIN merchant_mappings[response.user_id]

\* the upload in progress has loaded its four preloads
UploadPreloaded == upload.pc \in {"categorize", "status", "save", "done"}

\* the one resolver decision for row i on the preloads of the upload in progress
SnapshotDecision(i) ==
    IF upload.rows[i].amount >= 0
    THEN [category |-> IncomeLabels[upload.rows[i].description], status |-> "income"]
    ELSE categorize_expense(upload.user_id, upload.rows[i].description,
                            Some(upload.rows[i].amount), None,
                            Some(upload.preload_overrides), Some(upload.preload_merchants),
                            Some(upload.preload_zelle), Some(upload.preload_categories))

\* the category and the status of every row processed so far are those of the one
\* decision on the preloads
RowsFollowSnapshot ==
    UploadPreloaded =>
        /\ \A i \in 1..Len(upload.category) : upload.category[i] = SnapshotDecision(i).category
        /\ \A i \in 1..Len(upload.status) : upload.status[i] = SnapshotDecision(i).status

\* while the rows of one upload are processed, its preloads stay as loaded and the
\* categories and statuses already computed stay as computed
SnapshotStays ==
    (UploadPreloaded /\ upload'.pc # "preload_merchants") =>
        /\ upload'.preload_overrides = upload.preload_overrides
        /\ upload'.preload_merchants = upload.preload_merchants
        /\ upload'.preload_zelle = upload.preload_zelle
        /\ upload'.preload_categories = upload.preload_categories
        /\ \A i \in 1..Len(upload.category) : upload'.category[i] = upload.category[i]
        /\ \A i \in 1..Len(upload.status) : upload'.status[i] = upload.status[i]

\* C18: within one upload every row is resolved against the same overrides, mappings
\* and categories, loaded once before the first row; requests of the same user served
\* during the upload change neither the category nor the status of any of its rows, and
\* the category and the status of a row are those of one and the same decision
C18_RowsResolvedAgainstOneSnapshot == []RowsFollowSnapshot /\ [][SnapshotStays]_vars

\* an upload is done whose row got an override while the upload was processed, and
\* the row's category is not that override's
C18_Witness ==
    /\ upload.pc = "done"
    /\ \E i \in 1..Len(upload.rows) :
           /\ upload.rows[i].amount < 0
           /\ row_key(upload.rows[i]) \in DOMAIN transaction_overrides[upload.user_id]
           /\ row_key(upload.rows[i]) \notin DOMAIN upload.preload_overrides
           /\ upload.category[i] # transaction_overrides[upload.user_id][row_key(upload.rows[i])]

\* C19: the names of a user's categories are unique, after any sequence of category
\* creations, updates (renames), default seedings and migrations
C19_CategoryNamesUnique ==
    \A u \in Users :
        \A i \in 1..Len(categories[u]), j \in 1..Len(categories[u]) :
            i # j => categories[u][i].name # categories[u][j].name

\* c is the name of one of the categories the user has once the request is served
IsCategoryOfUserAfter(u, c) == \E i \in 1..Len(categories'[u]) : categories'[u][i].name = c

\* C20: a PUT /transactions/{key}/category whose category is not the name of one of the
\* user's categories is answered with an error, and neither the overrides nor the stored
\* transaction rows change
C20_UnknownCategoryWritesNothing ==
    [][ \A u \in ActiveUsers, c \in CategoryNames :
            \A k \in DOMAIN transactions[u] :
                (update_transaction_category_by_key(u, k, c) /\ ~IsCategoryOfUserAfter(u, c))
                    => /\ Answered(response', "update_transaction_category_by_key", 500)
                       /\ transaction_overrides' = transaction_overrides
                       /\ transactions' = transactions
      ]_vars

\* a PUT for a stored row, with an unknown category, was answered with an error
C20_Witness ==
    /\ Answered(response, "update_transaction_category_by_key", 500)
    /\ \E u \in ActiveUsers :
           /\ DOMAIN transactions[u] # {}
           /\ DOMAIN transaction_overrides[u] # {}

(***************************************************************************)
(* Claims about the maintenance requests.                                  *)
(***************************************************************************)
\* the user has a category of that id when the request arrives
CategoryIdExists(u, id) == \E i \in 1..Len(categories[u]) : categories[u][i].id = id

\* once the request is served, one of the user's overrides or mappings names the category
StillReferenced(u, name) ==
    \/ \E k \in DOMAIN transaction_overrides'[u] : transaction_overrides'[u][k] = name
    \/ \E k \in DOMAIN merchant_mappings'[u] : merchant_mappings'[u][k] = name
    \/ \E k \in DOMAIN zelle_recipients'[u] : zelle_recipients'[u][k] = name

\* C21: a DELETE /categories/{id} for an existing category of the user removes the
\* category, is answered with the success message, and leaves no override, merchant
\* mapping or recipient mapping of that user naming the deleted category
C21_DeleteRemovesCategoryAndReferences ==
    [][ \A u \in ActiveUsers, id \in 0..(next_id - 1) :
            (delete_category(u, id) /\ CategoryIdExists(u, id))
                => /\ \A i \in 1..Len(categories'[u]) : categories'[u][i].id # id
                   /\ Answered(response', "delete_category", 200)
                   /\ ~StillReferenced(u, name_of_category(categories[u], id).val)
      ]_vars

\* C21, the part about references alone: after the delete of an existing category
\* nothing of the user names it
C21_DeleteClearsReferences ==
    [][ \A u \in ActiveUsers, id \in 0..(next_id - 1) :
            (delete_category(u, id) /\ CategoryIdExists(u, id))
                => ~StillReferenced(u, name_of_category(categories[u], id).val)
      ]_vars

\* C22: a DELETE /categories/{id} whose id matches none of the user's categories is
\* answered 404 and leaves the user's categories, overrides and mappings unchanged
C22_DeleteUnknownCategoryIs404 ==
    [][ \A u \in ActiveUsers, id \in 0..(next_id - 1) :
            (delete_category(u, id) /\ ~CategoryIdExists(u, id))
                => /\ Answered(response', "delete_category", 404)
                   /\ categories' = categories
                   /\ transaction_overrides' = transaction_overrides
                   /\ merchant_mappings' = merchant_mappings
                   /\ zelle_recipients' = zelle_recipients
      ]_vars

\* C22, the part about the stored data alone: such a DELETE changes nothing
C22_DeleteUnknownCategoryChangesNothing ==
    [][ \A u \in ActiveUsers, id \in 0..(next_id - 1) :
            (delete_category(u, id) /\ ~CategoryIdExists(u, id))
                => /\ categories' = categories
                   /\ transaction_overrides' = transaction_overrides
                   /\ merchant_mappings' = merchant_mappings
                   /\ zelle_recipients' = zelle_recipients
      ]_vars

\* once the reset is served: the user's overrides and mappings are empty, every row that
\* was not an income row is ('Other', 'new'), and the income rows are as they were
ResetDone(u) ==
    /\ transaction_overrides'[u] = EmptyMap
    /\ merchant_mappings'[u] = EmptyMap
    /\ zelle_recipients'[u] = EmptyMap
    /\ DOMAIN transactions'[u] = DOMAIN transactions[u]
    /\ \A k \in DOMAIN transactions[u] :
           IF transactions[u][k].status # "income"
           THEN transactions'[u][k].category = "Other" /\ transactions'[u][k].status = "new"
           ELSE transactions'[u][k] = transactions[u][k]

\* C23: whenever POST /transactions/reset-categories answers with its success message the
\* user's overrides and mappings are empty, the rows that are not income rows are
\* ('Other', 'new') and the income rows are unchanged; and when one of the four clearing
\* steps fails the endpoint does not report success
C23_ResetSuccessMeansCleared ==
    [][ \A u \in ActiveUsers, failed \in ResetFailures :
            reset_all_transaction_categories(u, failed)
                => /\ Answered(response', "reset_all_transaction_categories", 200)
                          => ResetDone(u)
                   /\ failed # {}
                          => ~Answered(response', "reset_all_transaction_categories", 200)
      ]_vars

\* C23, when no step fails: the reset is answered with success and everything is cleared
C23_ResetWithoutFailureClears ==
    [][ \A u \in ActiveUsers :
            reset_all_transaction_categories(u, {})
                => /\ Answered(response', "reset_all_transaction_categories", 200)
                   /\ ResetDone(u)
      ]_vars

\* C24: a POST /transactions/{key}/learn with an empty or missing description or
\* category is answered with status 400 and saves no merchant mapping
C24_LearnWithoutFieldsIs400 ==
    [][ \A u \in ActiveUsers, d \in LearnDescriptions, c \in LearnCategories :
            (learn_from_transaction(u, d, c) /\ (d = <<>> \/ c = ""))
                => /\ Answered(response', "learn_from_transaction", 400)
                   /\ merchant_mappings' = merchant_mappings
      ]_vars

\* C24, the part about the stored mappings alone: such a request saves nothing
C24_LearnWithoutFieldsSavesNothing ==
    [][ \A u \in ActiveUsers, d \in LearnDescriptions, c \in LearnCategories :
            (learn_from_transaction(u, d, c) /\ (d = <<>> \/ c = ""))
                => merchant_mappings' = merchant_mappings
      ]_vars

(***************************************************************************)
(* Claims about uploads of several files.                                  *)
(***************************************************************************)
\* the latest response is the body of a POST /process-multiple-expenses
MultipleAnswered == Answered(response, "process_multiple_expenses", 200)

\* the indices of the reports of the response that say success
SuccessfulReports == {i \in 1..Len(response.reports) : response.reports[i].success}

\* the sum of a summary field over the reports of the given indices
RECURSIVE SumOfReports(_, _)
SumOfReports(indices, field) ==
    IF indices = {} THEN 0
    ELSE LET i == CHOOSE x \in indices : TRUE
         IN response.reports[i].summary[field] + SumOfReports(indices \ {i}, field)

SummaryFields ==
    {"total_expenses", "total_income", "total_transactions", "expense_transactions",
     "income_transactions"}

\* the file at position i of the request is of a type the handler rejects
FileFails(i) == ~valid_file_type(response.files[i].filename)

\* the row of the file at position i of the request is stored for the user
FileStored(i) ==
    transaction_key_of[response.files[i].file.description, response.files[i].file.amount,
                       date_val_at_key(response.files[i].file)]
        \in DOMAIN transactions[response.user_id]

\* C25: in the response of POST /process-multiple-expenses there is one report per file, in
\* the order of the files; a file whose processing fails has a report with success false and
\* all-zero totals, and the other files, those after it included, are processed and
\* reported as successes; the combined totals are the sums over the successful reports and
\* successful_files is their number
C25_OneReportPerFileAndTotalsOfSuccesses ==
    MultipleAnswered =>
        /\ Len(response.reports) = Len(response.files)
        /\ \A i \in 1..Len(response.files) :
               /\ response.reports[i].filename = response.files[i].filename
               /\ IF FileFails(i)
                  THEN /\ ~response.reports[i].success
                       /\ \A f \in SummaryFields : response.reports[i].summary[f] = 0
                  ELSE /\ response.reports[i].success
                       /\ FileStored(i)
        /\ \A f \in SummaryFields : response.summary[f] = SumOfReports(SuccessfulReports, f)
        /\ response.successful_files = Cardinality(SuccessfulReports)
        /\ response.total_files = Len(response.files)

\* a request of two files was answered whose first file failed and whose second file was
\* processed and stored
C25_Witness ==
    /\ MultipleAnswered
    /\ Len(response.files) = 2
    /\ FileFails(1) /\ ~FileFails(2)
    /\ ~response.reports[1].success /\ response.reports[2].success
    /\ FileStored(2)
    /\ response.successful_files = 1
    /\ response.summary.total_expenses = ExpenseAmount

\* the stored (user, transaction_key) pairs
StoredPairs == {p \in Users \X UNION {DOMAIN transactions[v] : v \in Users} :
                   p[2] \in DOMAIN transactions[p[1]]}

\* the (user, transaction_key) pairs of the files of a request that are processed
PairsOfFiles(u, files) ==
    { <<u, transaction_key_of[files[i].file.description, files[i].file.amount,
                              date_val_at_key(files[i].file)]>> :
          i \in {j \in 1..Len(files) : valid_file_type(files[j].filename)} }

\* the step has served a POST /process-multiple-expenses of these files
RequestServed(files) ==
    IF Len(files) = 0 THEN Answered(response', "process_multiple_expenses", 500)
    ELSE Answered(response', "process_multiple_expenses", 200) /\ response'.files = files

\* C26: persisting uploads is idempotent on (user, transaction_key): an upload adds the
\* pairs of its processed files to the stored pairs and nothing else, so a file uploaded
\* again, in the same request or in a later one, adds no pair and the stored pairs after
\* the second upload are those after the first
C26_UploadIsIdempotentOnKeys ==
    [][ \A u \in ActiveUsers, files \in UploadFileLists :
            (RequestServed(files) /\ process_multiple_expenses(u, files))
                => /\ StoredPairs' = StoredPairs \cup PairsOfFiles(u, files)
                   /\ PairsOfFiles(u, files) \subseteq StoredPairs
                          => StoredPairs' = StoredPairs
      ]_vars

\* the same file was uploaded twice and the user has one stored row
C26_Witness ==
    /\ MultipleAnswered
    /\ Len(response.files) = 2
    /\ response.files[1] = response.files[2]
    /\ response.successful_files = 2
    /\ Cardinality(DOMAIN transactions[response.user_id]) = 1
    /\ FileStored(1)

\* the steps that decide a resolution when no override does
LaterSteps == {"zelle", "merchant", "keyword", "fallback", "uncategorized"}

\* a DELETE /transactions/{key}/category for a key with an override is answered with
\* success and removes the override
DeleteRemovesOverride ==
    \A u \in ActiveUsers :
        (remove_transaction_category_override(u, MaintenanceKey)
             /\ MaintenanceKey \in DOMAIN transaction_overrides[u])
            => /\ Answered(response', "remove_transaction_category_override", 200)
               /\ MaintenanceKey \notin DOMAIN transaction_overrides'[u]
               /\ UNCHANGED <<categories, merchant_mappings, zelle_recipients, transactions>>

\* a DELETE for a key without an override is answered 404 and changes nothing
DeleteWithoutOverrideIs404 ==
    \A u \in ActiveUsers :
        (remove_transaction_category_override(u, MaintenanceKey)
             /\ MaintenanceKey \notin DOMAIN transaction_overrides[u])
            => /\ Answered(response', "remove_transaction_category_override", 404)
               /\ UNCHANGED <<categories, transaction_overrides, merchant_mappings,
                              zelle_recipients, transactions>>

\* a key without an override gets one only by a PUT that is answered with success
OverrideComesBackOnlyByPut ==
    \A u \in ActiveUsers :
        (MaintenanceKey \notin DOMAIN transaction_overrides[u]
             /\ MaintenanceKey \in DOMAIN transaction_overrides'[u])
            => Answered(response', "update_transaction_category_by_key", 200)

\* a resolution of a transaction whose key has no override is decided by a later step
ResolvedByLaterSteps ==
    (call.valid /\ call.amount # None /\ CallKey \notin DOMAIN call.overrides_before)
        => call.step \in LaterSteps

\* C27: after a successful DELETE /transactions/{key}/category the user's overrides do
\* not contain the key, and as long as no PUT saves one again a resolution of the
\* transaction is decided by the recipient, merchant, keyword or fallback step; a DELETE
\* for a key without an override is answered 404 and changes nothing
C27_DeletedOverrideNoLongerDecides ==
    /\ [][DeleteRemovesOverride /\ DeleteWithoutOverrideIs404 /\ OverrideComesBackOnlyByPut]_vars
    /\ []ResolvedByLaterSteps

\* the override of a stored row was deleted: the row still carries the category the PUT
\* wrote, and the key is no longer among the overrides
C27_Witness ==
    /\ Answered(response, "remove_transaction_category_override", 200)
    /\ MaintenanceKey \notin DOMAIN transaction_overrides["u1"]
    /\ MaintenanceKey \in DOMAIN transactions["u1"]
    /\ transactions["u1"][MaintenanceKey].status = "saved"

\* the names of the categories the user of the latest call had when the call was made
CallCurrentNames ==
    {call.categories_before[i].name : i \in 1..Len(call.categories_before)}
        \cup {call.category_list[i].name : i \in 1..Len(call.category_list)}

\* C28: whatever categories were created, renamed and deleted, overrides saved, merchants
\* learned, recipients saved and resets made before it, the category name that
\* categorize_expense returns for a user is the name of one of the user's current
\* categories or 'Uncategorized'
C28_ResultNamesCurrentCategory ==
    call.valid => (call.category = "Uncategorized" \/ call.category \in CallCurrentNames)

\* C28 for the resolutions that the keyword and fallback steps decide
C28_KeywordAndFallbackNameCurrentCategory ==
    (call.valid /\ call.step \in {"keyword", "fallback", "uncategorized"})
        => (call.category = "Uncategorized" \/ call.category \in CallCurrentNames)

\* C28 for the resolutions that an override decides: the PUT saves only names of existing
\* categories, so such a result leaves the current categories only by a later delete or
\* rename
C28_OverrideNamesCurrentCategory ==
    (call.valid /\ call.step = "override") => call.category \in CallCurrentNames

(***************************************************************************)
(* Claims about the two users.                                             *)
(***************************************************************************)
\* everything that is stored for a user
UserData(v) ==
    <<categories[v], transaction_overrides[v], merchant_mappings[v], zelle_recipients[v],
      transactions[v]>>

\* a request of one user leaves what is stored for every other user as it is
RequestsKeepOtherUsersData ==
    \A u \in Users : RequestOf(u) => \A v \in Users \ {u} : UserData(v)' = UserData(v)

\* the result of the latest call, computed again from what was stored for its own user
\* when it was made
ResultFromOwnData ==
    IF categorize_by_mappings(call.overrides_before, call.zelle_before, call.merchants_before,
                              call.description, call.amount, call.date) # None
    THEN categorize_by_mappings(call.overrides_before, call.zelle_before,
                                call.merchants_before, call.description, call.amount,
                                call.date).val
    ELSE categorize_by_categories(call.categories_before, call.description)

\* the latest call returned what its own user's data gives
ResolvedFromOwnData ==
    call.valid => /\ call.category = ResultFromOwnData.category
                  /\ call.status = ResultFromOwnData.status
                  /\ call.step = ResultFromOwnData.step

\* C29: no request of one user (save or delete an override, learn a merchant, save or
\* delete a recipient, create, update or delete a category, reset, upload, resolve) adds,
\* changes or removes another user's categories, overrides, mappings or transactions, and
\* the resolution of a user's transaction is a function of that user's own data
C29_UsersAreIsolated ==
    [][RequestsKeepOtherUsersData]_vars /\ []ResolvedFromOwnData

\* both users have saved an override under the same key, and the transaction of one of
\* them has then been resolved by that user's override
C29_Witness ==
    /\ MaintenanceKey \in DOMAIN transaction_overrides["u1"]
    /\ MaintenanceKey \in DOMAIN transaction_overrides["u2"]
    /\ ops = 2
    /\ call.valid /\ call.user_id = "u1" /\ call.step = "override"

=============================================================================
